---- MODULE Spec2Model ----
(***************************************************************************)
(* Model of the ClimateGPT tool facades (src/src/custom_tools, src/src):   *)
(* each facade's run_impl is translated from its Python source; pandas     *)
(* frames are records [columns, rows] whose rows are functions from column *)
(* label to cell value.                                                    *)
(***************************************************************************)
EXTENDS Integers, Sequences, FiniteSets, TLC

VARIABLES
    tool,           \* name of the facade whose call is in flight ("none" when idle)
    req,            \* keyword arguments of the call in flight
    pc,             \* position inside run_impl
    filtered_data,  \* the local variable filtered_data of run_impl
    messages,       \* the local list messages of run_impl
    stages,         \* stages this call has executed so far, in order
    presort,        \* the frame handed to sort_data by this call
    sorted_data,    \* the frame sort_data returned to this call
    result,         \* what the call returned or raised
    tables,         \* process-wide source tables (module globals, instance fields)
    shapes,         \* history: the <<tool, shape>> pairs of the results returned so far
    recorded,       \* history: one earlier call, kept with its result
    surface_years,  \* the list years that determine_years returned to this call
    memory_store,   \* app.py: the module global memory_store, session id -> list of entries
    ask,            \* the locals of the call of ask_question in flight
    answered        \* history: the /ask requests that got a generated answer, in completion order

vars == <<tool, req, pc, filtered_data, messages, stages, presort, sorted_data, result, tables,
          shapes, recorded, surface_years, memory_store, ask, answered>>

\* the state of the /ask endpoint
endpoint == <<memory_store, ask, answered>>

-----------------------------------------------------------------------------
(* Bounds of the model *)

\* n ranges over 0..MaxN
MaxN == 3

-----------------------------------------------------------------------------
(* Python values: None, str, int and list arguments are tagged so that      *)
(* `x == "all"`, `if x:` and `x is None` behave as in Python.               *)

None == [k |-> "none"]
PyStr(s) == [k |-> "str", v |-> s]
PyInt(i) == [k |-> "int", v |-> i]
PyList(xs) == [k |-> "list", v |-> xs]

\* Python truthiness (`if x:`)
Truthy(o) ==
    CASE o.k = "none" -> FALSE
      [] o.k = "str"  -> o.v # ""
      [] o.k = "int"  -> o.v # 0
      [] o.k = "list" -> o.v # <<>>

ToSet(s) == {s[i] : i \in DOMAIN s}
InSeq(x, s) == \E i \in DOMAIN s : s[i] = x
Reverse(s) == [i \in 1..Len(s) |-> s[Len(s) + 1 - i]]

\* A raised exception / a normally computed value
Raise(e) == [ok |-> FALSE, exc |-> e]
Ok(x) == [ok |-> TRUE, val |-> x]

\* result of a call
NoResult == [status |-> "none"]
Returned(x) == [status |-> "returned", value |-> x]
Raised(e) == [status |-> "raised", exc |-> e]

\* f"<text>{', '.join(values)}"
Msg(text, values) == [text |-> text, values |-> values]

-----------------------------------------------------------------------------
(* pandas operations used by the facades *)

\* float('nan'): the reduction of an empty column
NaN == 0 - 1

EmptyFrame == [columns |-> <<>>, rows |-> <<>>]

\* df[df[col].isin(values)]
Isin(df, col, values) ==
    [df EXCEPT !.rows = SelectSeq(df.rows, LAMBDA r : InSeq(r[col], values))]

\* [v for v in values if v not in df[col].unique()]
MissingValues(df, col, values) ==
    SelectSeq(values, LAMBDA v : ~ \E i \in DOMAIN df.rows : df.rows[i][col] = v)

\* df[cols] for a list of labels that are all columns of df
Project(df, cols) ==
    [columns |-> cols,
     rows |-> [i \in DOMAIN df.rows |-> [c \in ToSet(cols) |-> df.rows[i][c]]]]

\* df.head(n)
HeadRows(df, n) ==
    [df EXCEPT !.rows = SubSeq(df.rows, 1, IF n < Len(df.rows) THEN n ELSE Len(df.rows))]

\* df.to_dict(orient='records'): a frame without columns yields no record
ToRecords(df) == IF df.columns = <<>> THEN <<>> ELSE df.rows

\* alphabetical position of the string labels that pandas has to order
StrRank ==
    [s \in {"1986-2005", "2020-2039", "2040-2059", "2080-2099", "Afghanistan", "Aruba",
            "Brazil", "Energy", "India", "Industry", "Kenya", "Power", "Residential",
            "SSP2-4.5", "SSP3-7.0", "SSP5-8.5", "Supply per capita", "Total supply",
            "Transport", "United Kingdom", "coal", "electricity"} |->
        CASE s = "1986-2005" -> 1 [] s = "2020-2039" -> 2 [] s = "2040-2059" -> 3
          [] s = "2080-2099" -> 4 [] s = "Afghanistan" -> 5 [] s = "Aruba" -> 6
          [] s = "Brazil" -> 7 [] s = "Energy" -> 8 [] s = "India" -> 9
          [] s = "Industry" -> 10 [] s = "Kenya" -> 11 [] s = "Power" -> 12
          [] s = "Residential" -> 13 [] s = "SSP2-4.5" -> 14 [] s = "SSP3-7.0" -> 15
          [] s = "SSP5-8.5" -> 16 [] s = "Supply per capita" -> 17 [] s = "Total supply" -> 18
          [] s = "Transport" -> 19 [] s = "United Kingdom" -> 20 [] s = "coal" -> 21
          [] s = "electricity" -> 22]

\* columns whose cells are strings
StrCols ==
    {"country", "ssp_range", "year_range", "Country", "Series", "Sector", "Description", "sector"}

\* cell a orders strictly before cell b in column col (numbers, strings, timestamps)
CellLess(col, a, b) ==
    IF col \in StrCols THEN StrRank[a] < StrRank[b]
    ELSE IF col = "time"
         THEN \E i \in DOMAIN a :
                 /\ \A j \in 1..(i - 1) : a[j] = b[j]
                 /\ a[i] < b[i]
         ELSE a < b

\* row a orders strictly before row b on the key columns `by` (left to right)
RowLess(a, b, by) ==
    \E i \in DOMAIN by :
        /\ \A j \in 1..(i - 1) : a[by[j]] = b[by[j]]
        /\ CellLess(by[i], a[by[i]], b[by[i]])

Precedes(a, b, by, ascending) ==
    IF ascending THEN RowLess(a, b, by) ELSE RowLess(b, a, by)

\* insert x behind every row of the ordered sequence t that does not come after it
InsertRow(x, t, by, ascending) ==
    LET k == Cardinality({i \in DOMAIN t : ~ Precedes(x, t[i], by, ascending)})
    IN SubSeq(t, 1, k) \o <<x>> \o SubSeq(t, k + 1, Len(t))

RECURSIVE StableSort(_, _, _)
\* rows ordered on `by`; rows with equal keys keep their input order
StableSort(rows, by, ascending) ==
    IF rows = <<>> THEN <<>>
    ELSE InsertRow(rows[Len(rows)],
                   StableSort(SubSeq(rows, 1, Len(rows) - 1), by, ascending),
                   by, ascending)

\* DataFrame.sort_values(by=by, ascending=ascending): the orders pandas can return.
\* by = []            -> the frame unchanged
\* several key columns -> lexsort, which keeps the input order of equal keys
\* one key column      -> numpy quicksort, which leaves the order of equal keys
\*                        open: either relative order of tied rows can come out
SortValues(df, by, ascending) ==
    IF by = <<>> THEN {df}
    ELSE IF Len(by) > 1 THEN {[df EXCEPT !.rows = StableSort(df.rows, by, ascending)]}
    ELSE {[df EXCEPT !.rows = StableSort(df.rows, by, ascending)],
          [df EXCEPT !.rows = StableSort(Reverse(df.rows), by, ascending)]}

RECURSIVE SeqMin(_)
SeqMin(s) ==
    IF Len(s) = 1 THEN s[1]
    ELSE LET m == SeqMin(Tail(s)) IN IF s[1] < m THEN s[1] ELSE m

RECURSIVE SeqMax(_)
SeqMax(s) ==
    IF Len(s) = 1 THEN s[1]
    ELSE LET m == SeqMax(Tail(s)) IN IF s[1] > m THEN s[1] ELSE m

RECURSIVE SeqSum(_)
SeqSum(s) == IF s = <<>> THEN 0 ELSE s[1] + SeqSum(Tail(s))

\* Series.agg(method) for the reductions the model uses
Reduce(method, values) ==
    IF values = <<>> THEN (IF method = "sum" THEN 0 ELSE NaN)
    ELSE CASE method = "min"  -> SeqMin(values)
           [] method = "max"  -> SeqMax(values)
           [] method = "sum"  -> SeqSum(values)
           [] method = "mean" -> SeqSum(values) \div Len(values)

\* the values of column col, in row order
Column(df, col) == [i \in DOMAIN df.rows |-> df.rows[i][col]]

\* the distinct key combinations of the rows on the columns keys, in sorted key order
GroupKeys(df, keys) ==
    LET proj == Project(df, keys)
        first(kv) == CHOOSE i \in DOMAIN proj.rows :
                        /\ proj.rows[i] = kv
                        /\ \A j \in 1..(i - 1) : proj.rows[j] # kv
        uniq == SelectSeq([i \in DOMAIN proj.rows |-> <<i, proj.rows[i]>>],
                          LAMBDA p : p[1] = first(p[2]))
    IN StableSort([i \in DOMAIN uniq |-> uniq[i][2]], keys, TRUE)

\* df.groupby(keys).agg({c: method for c in valueCols}).reset_index()
GroupByAgg(df, keys, valueCols, method) ==
    LET gk == GroupKeys(df, keys)
        members(kv) == SelectSeq(df.rows, LAMBDA r : \A c \in ToSet(keys) : r[c] = kv[c])
        out(kv) == [c \in ToSet(keys) \cup ToSet(valueCols) |->
                      IF c \in ToSet(keys) THEN kv[c]
                      ELSE Reduce(method, Column([columns |-> df.columns, rows |-> members(kv)], c))]
    IN [columns |-> keys \o valueCols,
        rows |-> [i \in DOMAIN gk |-> out(gk[i])]]

\* one filter step of a facade: report the requested values the column lacks,
\* then keep the rows whose cell is among the requested values
FilterStep(df, msgs, col, requested, text) ==
    IF Truthy(requested)
    THEN LET missing == MissingValues(df, col, requested.v)
         IN [df |-> Isin(df, col, requested.v),
             messages |-> IF missing # <<>> THEN Append(msgs, Msg(text, missing)) ELSE msgs]
    ELSE [df |-> df, messages |-> msgs]

\* the aggregation method named by the argument aggregate (a str, or a list as the tests pass it)
Method(aggregate) == IF aggregate.k = "list" THEN aggregate.v[1] ELSE aggregate.v

\* the label 0 that Series.reset_index() gives the value column
IntLabel == "0"

-----------------------------------------------------------------------------
(* get_cil_gobal_tas: CIL_Global_TAS_Tool *)

CilRow(c, s, y, a, b, d) ==
    [col \in {"country", "ssp_range", "year_range", "p0.05", "p0.50", "p0.95"} |->
        CASE col = "country" -> c [] col = "ssp_range" -> s [] col = "year_range" -> y
          [] col = "p0.05" -> a [] col = "p0.50" -> b [] col = "p0.95" -> d]

CilColumns == <<"country", "ssp_range", "year_range", "p0.05", "p0.50", "p0.95">>

\* the annual table (self.data)
CilAnnual ==
    [columns |-> CilColumns,
     rows |-> << CilRow("Aruba", "SSP2-4.5", "1986-2005", 79, 80, 81),
                 CilRow("Aruba", "SSP2-4.5", "2020-2039", 80, 81, 82),
                 CilRow("Afghanistan", "SSP5-8.5", "2020-2039", 54, 55, 56),
                 CilRow("Kenya", "SSP5-8.5", "2040-2059", 54, 55, 56),
                 CilRow("Afghanistan", "SSP2-4.5", "1986-2005", 54, 52, 53) >>]

\* a seasonal table (self.jja_data, self.djf_data, self.u32_data, self.o95_data)
CilSeasonal ==
    [columns |-> CilColumns,
     rows |-> << CilRow("United Kingdom", "SSP3-7.0", "2040-2059", 10, 20, 30),
                 CilRow("Aruba", "SSP3-7.0", "2080-2099", 12, 22, 32),
                 CilRow("Aruba", "SSP2-4.5", "2020-2039", 11, 21, 31) >>]

CilTables ==
    [t \in {"cil.data", "cil.jja_data", "cil.djf_data", "cil.u32_data", "cil.o95_data"} |->
        IF t = "cil.data" THEN CilAnnual ELSE CilSeasonal]

\* the table run_impl copies for a flag
CilSource(flag) ==
    IF flag = PyStr("jja") THEN "cil.jja_data"
    ELSE IF flag = PyStr("djf") THEN "cil.djf_data"
    ELSE IF flag = PyStr("u32") THEN "cil.u32_data"
    ELSE IF flag = PyStr("o95") THEN "cil.o95_data"
    ELSE "cil.data"

\* col.startswith('p') for the string labels of the model
StartsWithP(col) == col \in {"p0.05", "p0.50", "p0.95"}

\* f"p{percentile}"
PLabel(p) == CASE p = "0.05" -> "p0.05" [] p = "0.50" -> "p0.50" [] p = "0.95" -> "p0.95"

ValidPercentiles == {"0.05", "0.50", "0.95"}

\* a selection that lists the valid percentile columns in the file's column order
CilSelectPercentilesFileOrder(df, msgs, percentiles) ==
    LET keys == <<"country", "ssp_range", "year_range">>
    IN IF percentiles.k = "none"
       THEN [df |-> Project(df, keys \o <<"p0.05", "p0.50", "p0.95">>), messages |-> msgs]
       ELSE LET invalid == SelectSeq(percentiles.v, LAMBDA p : p \notin ValidPercentiles)
                valid == SelectSeq(<<"0.05", "0.50", "0.95">>,
                                   LAMBDA p : p \in ToSet(percentiles.v))
                msgs2 == IF invalid # <<>>
                         THEN Append(msgs, Msg("Invalid percentile value(s): ", invalid))
                         ELSE msgs
            IN IF valid # <<>>
               THEN [df |-> Project(df, keys \o [i \in DOMAIN valid |-> PLabel(valid[i])]),
                     messages |-> msgs2]
               ELSE [df |-> Project(df, <<>>), messages |-> msgs2]

\* Step 4 of run_impl: the percentile columns kept
CilSelectPercentiles(df, msgs, percentiles) ==
    LET keys == <<"country", "ssp_range", "year_range">>
    IN IF percentiles.k = "none"
       THEN [df |-> Project(df, keys \o <<"p0.05", "p0.50", "p0.95">>), messages |-> msgs]
       ELSE LET invalid == SelectSeq(percentiles.v, LAMBDA p : p \notin ValidPercentiles)
                valid == SelectSeq(percentiles.v, LAMBDA p : p \in ValidPercentiles)
                msgs2 == IF invalid # <<>>
                         THEN Append(msgs, Msg("Invalid percentile value(s): ", invalid))
                         ELSE msgs
            IN IF valid # <<>>
               THEN [df |-> Project(df, keys \o [i \in DOMAIN valid |-> PLabel(valid[i])]),
                     messages |-> msgs2]
               ELSE [df |-> Project(df, <<>>), messages |-> msgs2]

\* aggregate_data(data, aggregate, group_by)
CilAggregateData(data, aggregate, group_by) ==
    LET pcols == SelectSeq(data.columns, StartsWithP)
    IN IF Truthy(group_by)
       THEN LET selected == <<"p0.05", "p0.50", "p0.95">> \o group_by.v
            IN IF ~ (ToSet(selected) \subseteq ToSet(data.columns))
               THEN Raise("KeyError")      \* data[selected_columns]
               ELSE IF aggregate.k = "none"
               THEN Raise("TypeError")     \* .agg({col: None})
               ELSE Ok(GroupByAgg(Project(data, selected), group_by.v, pcols, Method(aggregate)))
       ELSE IF pcols = <<>>
       THEN Raise("ValueError")            \* data.agg({})
       ELSE IF aggregate.k = "str"
       THEN \* a Series indexed by column; reset_index() labels its columns 'index' and 0
            Ok([columns |-> <<"index", IntLabel>>,
                rows |-> [i \in DOMAIN pcols |->
                            [c \in {"index", IntLabel} |->
                                IF c = "index" THEN pcols[i]
                                ELSE Reduce(aggregate.v, Column(data, pcols[i]))]]])
       ELSE \* a frame indexed by method; reset_index() adds the column 'index'
            Ok([columns |-> <<"index">> \o pcols,
                rows |-> << [c \in {"index"} \cup ToSet(pcols) |->
                                IF c = "index" THEN Method(aggregate)
                                ELSE Reduce(Method(aggregate), Column(data, c))] >>])

\* sort_data(data, sort): the frames it can return, or the exception it raises
CilSortData(data, sort) ==
    LET sort_columns == SelectSeq(data.columns, StartsWithP)
    IN IF InSeq(IntLabel, data.columns)
       THEN Raise("AttributeError")        \* (0).startswith
       ELSE IF \E i, j \in DOMAIN sort_columns : i # j /\ sort_columns[i] = sort_columns[j]
       THEN Raise("ValueError")            \* sort_values: the column label is not unique
       ELSE Ok(SortValues(data, sort_columns, sort # "descending"))

\* a truncation that keeps one row more than asked for
CilTruncateRowsOffByOne(data, n) == IF n # 0 THEN HeadRows(data, n + 1) ELSE data

\* if n != 0: filtered_data.head(n)
CilTruncateRows(data, n) == IF n # 0 THEN HeadRows(data, n) ELSE data

CilRequest(flag, countries, years_range, ssp_range, percentiles, group_by, aggregate, sort, n) ==
    [flag |-> flag, countries |-> countries, years_range |-> years_range,
     ssp_range |-> ssp_range, percentiles |-> percentiles, group_by |-> group_by,
     aggregate |-> aggregate, sort |-> sort, n |-> n]

\* requests that exercise the filters
CilFilterRequests ==
    { CilRequest(f, c, y, s, None, None, None, "descending", 0) :
        f \in {None, PyStr("djf"), PyStr("jja"), PyStr("u32"), PyStr("o95")},
        c \in {None, PyList(<<>>), PyList(<<"Aruba">>), PyList(<<"Kenya", "Atlantis">>)},
        y \in {None, PyList(<<"2020-2039">>), PyList(<<"1900-1919", "2040-2059">>)},
        s \in {None, PyList(<<"SSP2-4.5">>)} }

\* requests that exercise percentile selection, aggregation, sorting and truncation
CilPipelineRequests ==
    { CilRequest(None, c, None, None, p, g, a, s, n) :
        c \in {None, PyList(<<"Afghanistan", "Kenya">>)},
        p \in {None, PyList(<<"0.05">>), PyList(<<"0.95", "0.50">>), PyList(<<"0.24">>)},
        g \in {None, PyList(<<"country">>), PyList(<<"ssp_range", "year_range">>),
               PyList(<<"continent">>)},
        a \in {None, PyStr("min"), PyList(<<"max">>)},
        s \in {"ascending", "descending", "up"},
        n \in 0..MaxN }

\* requests that mix valid, invalid and repeated percentile values
CilPercentileRequests ==
    { CilRequest(None, c, None, None, p, None, None, "descending", n) :
        c \in {None, PyList(<<"Kenya">>)},
        p \in {PyList(<<"0.95", "0.24", "0.05">>), PyList(<<"0.05", "0.05">>),
               PyList(<<"0.24", "p12", "0.24">>)},
        n \in {0, 1} }

CilRequests == CilFilterRequests \cup CilPipelineRequests \cup CilPercentileRequests

CilStart ==
    /\ pc = "idle"
    /\ \E r \in CilRequests :
        /\ req' = r
        /\ filtered_data' = tables[CilSource(r.flag)]
    /\ tool' = "get_cil_gobal_tas"
    /\ messages' = <<>>
    /\ pc' = "filter"
    /\ UNCHANGED <<stages, presort, sorted_data, result, tables, endpoint, shapes, recorded, surface_years>>

\* the steps of run_impl without Step 3, the ssp_range filter
CilFilterDataNoSsp(data, msgs, r) ==
    LET s1 == FilterStep(data, msgs, "country", r.countries,
                         "Data for the following countries isn't available: ")
        s2 == FilterStep(s1.df, s1.messages, "year_range", r.years_range,
                         "Data for the following year ranges isn't available: ")
    IN CilSelectPercentiles(s2.df, s2.messages, r.percentiles)

\* the steps of run_impl with every missing value looked up in the table as loaded
CilFilterDataAgainstSource(data, msgs, r) ==
    LET s1 == FilterStep(data, msgs, "country", r.countries,
                         "Data for the following countries isn't available: ")
        m2 == FilterStep(data, s1.messages, "year_range", r.years_range,
                         "Data for the following year ranges isn't available: ").messages
        s2 == FilterStep(s1.df, m2, "year_range", r.years_range, "").df
        m3 == FilterStep(data, m2, "ssp_range", r.ssp_range,
                         "Data for the following SSP ranges isn't available: ").messages
        s3 == FilterStep(s2, m3, "ssp_range", r.ssp_range, "").df
    IN CilSelectPercentiles(s3, m3, r.percentiles)

\* Steps 1 to 4 of run_impl: countries, years_range, ssp_range, percentiles
CilFilterData(data, msgs, r) ==
    LET s1 == FilterStep(data, msgs, "country", r.countries,
                         "Data for the following countries isn't available: ")
        s2 == FilterStep(s1.df, s1.messages, "year_range", r.years_range,
                         "Data for the following year ranges isn't available: ")
        s3 == FilterStep(s2.df, s2.messages, "ssp_range", r.ssp_range,
                         "Data for the following SSP ranges isn't available: ")
    IN CilSelectPercentiles(s3.df, s3.messages, r.percentiles)

CilFilter ==
    /\ pc = "filter"
    /\ tool = "get_cil_gobal_tas"
    /\ LET s == CilFilterData(filtered_data, messages, req)
       IN /\ filtered_data' = s.df
          /\ messages' = s.messages
    /\ stages' = Append(stages, "filter")
    /\ pc' = "aggregate"
    /\ UNCHANGED <<tool, req, presort, sorted_data, result, tables, endpoint, shapes, recorded, surface_years>>

\* Step "Perform aggregations": only with group_by or aggregate
CilAggregate ==
    /\ pc = "aggregate"
    /\ tool = "get_cil_gobal_tas"
    /\ IF Truthy(req.group_by) \/ Truthy(req.aggregate)
       THEN LET r == CilAggregateData(filtered_data, req.aggregate, req.group_by)
            IN IF r.ok
               THEN /\ filtered_data' = r.val
                    /\ stages' = Append(stages, "aggregate")
                    /\ pc' = "sort"
                    /\ UNCHANGED result
               ELSE /\ result' = Raised(r.exc)
                    /\ pc' = "raised"
                    /\ UNCHANGED <<filtered_data, stages>>
       ELSE /\ pc' = "sort"
            /\ UNCHANGED <<filtered_data, stages, result>>
    /\ UNCHANGED <<tool, req, messages, presort, sorted_data, tables, endpoint, shapes, recorded, surface_years>>

\* Step "sorting"
CilSort ==
    /\ pc = "sort"
    /\ tool = "get_cil_gobal_tas"
    /\ presort' = filtered_data
    /\ LET r == CilSortData(filtered_data, req.sort)
       IN IF r.ok
          THEN /\ \E s \in r.val :
                    /\ filtered_data' = s
                    /\ sorted_data' = s
               /\ stages' = Append(stages, "sort")
               /\ pc' = "truncate"
               /\ UNCHANGED result
          ELSE /\ result' = Raised(r.exc)
               /\ pc' = "raised"
               /\ UNCHANGED <<filtered_data, sorted_data, stages>>
    /\ UNCHANGED <<tool, req, messages, tables, endpoint, shapes, recorded, surface_years>>

CilTruncate ==
    /\ pc = "truncate"
    /\ tool = "get_cil_gobal_tas"
    /\ filtered_data' = CilTruncateRows(filtered_data, req.n)
    /\ stages' = IF req.n # 0 THEN Append(stages, "truncate") ELSE stages
    /\ pc' = "assemble"
    /\ UNCHANGED <<tool, req, messages, presort, sorted_data, result, tables, endpoint, shapes, recorded, surface_years>>

CilAssemble ==
    /\ pc = "assemble"
    /\ tool = "get_cil_gobal_tas"
    /\ result' = Returned([data |-> PyList(ToRecords(filtered_data)), messages |-> messages])
    /\ stages' = Append(stages, "assemble")
    /\ pc' = "done"
    /\ UNCHANGED <<tool, req, filtered_data, messages, presort, sorted_data, tables, endpoint, shapes, recorded, surface_years>>

-----------------------------------------------------------------------------
(* get_ren_ninja: RenNinjaTool.  A timestamp is <<year, month, day, hour>>; *)
(* capacity factors are integers in units that keep every mean exact.       *)

NinjaWideRow(t, gb, ind) ==
    [col \in {"time", "GB", "IN"} |-> CASE col = "time" -> t [] col = "GB" -> gb [] col = "IN" -> ind]

\* self.pv_data
NinjaPv ==
    [columns |-> <<"time", "GB", "IN">>,
     rows |-> << NinjaWideRow(<<2023, 1, 1, 23>>, 12, 48),
                 NinjaWideRow(<<2023, 1, 1, 2>>, 36, 24),
                 NinjaWideRow(<<2000, 5, 5, 0>>, 24, 48),
                 NinjaWideRow(<<2000, 12, 5, 14>>, 12, 12) >>]

\* self.wind_data, self.wind_data_longterm, self.wind_data_nearterm
NinjaWind(a, b) ==
    [columns |-> <<"time", "GB">>,
     rows |-> << [col \in {"time", "GB"} |-> IF col = "time" THEN <<2023, 1, 1, 0>> ELSE a],
                 [col \in {"time", "GB"} |-> IF col = "time" THEN <<2024, 1, 1, 0>> ELSE b] >>]

NinjaTables ==
    [t \in {"ninja.pv_data", "ninja.wind_data", "ninja.wind_data_longterm",
            "ninja.wind_data_nearterm"} |->
        CASE t = "ninja.pv_data" -> NinjaPv
          [] t = "ninja.wind_data" -> NinjaWind(60, 72)
          [] t = "ninja.wind_data_longterm" -> NinjaWind(84, 72)
          [] t = "ninja.wind_data_nearterm" -> NinjaWind(60, 96)]

\* the table run_impl copies for a valid level
NinjaSource(level, flag) ==
    IF level = PyStr("pv") THEN "ninja.pv_data"
    ELSE IF flag = PyStr("longterm") THEN "ninja.wind_data_longterm"
    ELSE IF flag = PyStr("nearterm") THEN "ninja.wind_data_nearterm"
    ELSE "ninja.wind_data"

\* iso_to_country: pycountry's name of an ISO alpha-2 code
IsoToCountry(code) == CASE code = "GB" -> "United Kingdom" [] code = "IN" -> "India"

\* struct_data: pd.melt(id_vars=['time']) and the mapping of codes to names
NinjaStructData(data) ==
    LET codes == SelectSeq(data.columns, LAMBDA c : c # "time")
        nrows == Len(data.rows)
        cell(i) == LET code == codes[((i - 1) \div nrows) + 1]
                       r == data.rows[((i - 1) % nrows) + 1]
                   IN [col \in {"time", "country", "capacity_factor"} |->
                          CASE col = "time" -> r["time"]
                            [] col = "country" -> IsoToCountry(code)
                            [] col = "capacity_factor" -> r[code]]
    IN [columns |-> <<"time", "country", "capacity_factor">>,
        rows |-> [i \in 1..(Len(codes) * nrows) |-> cell(i)]]

\* the rows whose timestamp field (1 year, 2 month, 4 hour) is among values
TimeFieldIsin(df, field, values) ==
    [df EXCEPT !.rows = SelectSeq(df.rows, LAMBDA r : InSeq(r["time"][field], values))]

\* `d not in filtered_data['time'].unique()` for a date string d.  pandas >= 2
\* parses d and compares it with the timestamps (how = "parsed": d is found
\* when a row is stamped d 00:00); older releases compare a str with
\* datetime64 values, which never matches (how = "never").
NinjaMissingDates(df, dates, how) ==
    SelectSeq(dates, LAMBDA d :
        \/ how = "never"
        \/ ~ \E i \in DOMAIN df.rows : df.rows[i]["time"] = d \o <<0>>)

\* the comprehension of lines 170 and 182 with every value taken as legal
IncorrectValuesNone(values, lo, hi) == <<>>

\* [str(m) for m in months if m not in range(1,13)], and the same for hours
IncorrectValues(values, lo, hi) == SelectSeq(values, LAMBDA v : v \notin lo..hi)

\* Steps 1 and 2 of run_impl: countries, dates, months, years, hours
NinjaFilterData(data, msgs, r, how) ==
    LET s1 == FilterStep(data, msgs, "country", r.countries,
                         "Data for the following countries isn't available: ")
        s2 == IF Truthy(r.dates)
              THEN LET missing == NinjaMissingDates(s1.df, r.dates.v, how)
                   IN [df |-> [s1.df EXCEPT !.rows =
                                  SelectSeq(s1.df.rows,
                                            LAMBDA x : InSeq(SubSeq(x["time"], 1, 3), r.dates.v))],
                       messages |-> IF missing # <<>>
                                    THEN Append(s1.messages,
                                                Msg("Data for the following dates isn't available: ", missing))
                                    ELSE s1.messages]
              ELSE s1
        s3 == IF Truthy(r.months)
              THEN LET incorrect == IncorrectValues(r.months.v, 1, 12)
                   IN [df |-> TimeFieldIsin(s2.df, 2, r.months.v),
                       messages |-> IF incorrect # <<>>
                                    THEN Append(s2.messages, Msg("Incorrect months: ", incorrect))
                                    ELSE s2.messages]
              ELSE s2
        s4 == IF Truthy(r.years)
              THEN LET missing == SelectSeq(r.years.v, LAMBDA y :
                                      ~ \E i \in DOMAIN s3.df.rows : s3.df.rows[i]["time"][1] = y)
                   IN [df |-> TimeFieldIsin(s3.df, 1, r.years.v),
                       messages |-> IF missing # <<>>
                                    THEN Append(s3.messages,
                                                Msg("Data for the following years isn't available: ", missing))
                                    ELSE s3.messages]
              ELSE s3
        s5 == IF Truthy(r.hours)
              THEN LET incorrect == IncorrectValues(r.hours.v, 0, 23)
                   IN [df |-> TimeFieldIsin(s4.df, 4, r.hours.v),
                       messages |-> IF incorrect # <<>>
                                    THEN Append(s4.messages, Msg("Incorrect hours: ", incorrect))
                                    ELSE s4.messages]
              ELSE s4
    IN s5

\* merge_data(data, data_merge): mean capacity factor per (day | month | year, country)
NinjaMergeData(data, data_merge) ==
    IF data_merge.v \notin {"daily", "monthly", "yearly"}
    THEN Raise("UnboundLocalError")
    ELSE LET width == CASE data_merge.v = "daily" -> 3
                        [] data_merge.v = "monthly" -> 2
                        [] data_merge.v = "yearly" -> 1
             bucketed == [data EXCEPT !.rows =
                            [i \in DOMAIN data.rows |->
                                [data.rows[i] EXCEPT !["time"] = SubSeq(@, 1, width)]]]
         IN Ok(GroupByAgg(bucketed, <<"time", "country">>, <<"capacity_factor">>, "mean"))

\* aggregate_data(data, aggregate, group_by)
NinjaAggregateData(data, aggregate, group_by) ==
    IF group_by.k = "str" /\ group_by.v \in {"country", "time"}
    THEN IF aggregate.k = "none"
         THEN Raise("TypeError")           \* .agg({'capacity_factor': None})
         ELSE Ok(GroupByAgg(data, <<group_by.v>>, <<"capacity_factor">>, Method(aggregate)))
    ELSE IF group_by.k = "none"
    THEN IF aggregate.k = "str"
         THEN Ok([columns |-> <<"index", IntLabel>>,
                  rows |-> << [c \in {"index", IntLabel} |->
                                 IF c = "index" THEN "capacity_factor"
                                 ELSE Reduce(aggregate.v, Column(data, "capacity_factor"))] >>])
         ELSE Ok([columns |-> <<"index", "capacity_factor">>,
                  rows |-> << [c \in {"index", "capacity_factor"} |->
                                 IF c = "index" THEN Method(aggregate)
                                 ELSE Reduce(Method(aggregate), Column(data, "capacity_factor"))] >>])
    ELSE Raise("UnboundLocalError")        \* result is never assigned

\* a sort_data that reads the direction the wrong way round
NinjaSortDataFlipped(data, sort) ==
    IF ~ InSeq("capacity_factor", data.columns)
    THEN Raise("KeyError")
    ELSE Ok(SortValues(data, <<"capacity_factor">>, sort # "ascending"))

\* sort_data(data, sort)
NinjaSortData(data, sort) ==
    IF ~ InSeq("capacity_factor", data.columns)
    THEN Raise("KeyError")
    ELSE Ok(SortValues(data, <<"capacity_factor">>, sort = "ascending"))

\* if n: filtered_data.head(n)
NinjaTruncateRows(data, n) == IF Truthy(n) THEN HeadRows(data, n.v) ELSE data

NinjaRequest(level, flag, countries, dates, months, years, hours, data_merge, group_by,
             aggregate, sort, n) ==
    [level |-> level, flag |-> flag, countries |-> countries, dates |-> dates,
     months |-> months, years |-> years, hours |-> hours, data_merge |-> data_merge,
     group_by |-> group_by, aggregate |-> aggregate, sort |-> sort, n |-> n]

\* requests that exercise level and flag
NinjaLevelRequests ==
    { NinjaRequest(l, f, None, None, None, None, None, None, None, None, "descending", None) :
        l \in {None, PyStr("pv"), PyStr("wind"), PyStr("hydro")},
        f \in {None, PyStr("longterm"), PyStr("nearterm")} }

\* requests that exercise the filters
NinjaFilterRequests ==
    { NinjaRequest(PyStr("pv"), None, c, d, m, y, h, None, None, None, "descending", None) :
        c \in {None, PyList(<<"United Kingdom">>), PyList(<<"India", "Atlantis">>)},
        d \in {None, PyList(<< <<2000, 5, 5>>, <<2027, 2, 12>> >>), PyList(<< <<2023, 1, 1>> >>)},
        m \in {None, PyList(<<20, 12>>), PyList(<<1>>), PyList(<<13, 1, 0>>)},
        y \in {None, PyList(<<2023, 2030>>)},
        h \in {None, PyList(<<23, 35>>), PyList(<<24, 2, 30>>)} }

\* requests that exercise merging, aggregation, sorting and truncation
NinjaPipelineRequests ==
    { NinjaRequest(PyStr("pv"), None, c, None, None, None, None, dm, g, a, s, n) :
        c \in {None, PyList(<<"India">>)},
        dm \in {None, PyStr("daily"), PyStr("monthly"), PyStr("yearly"), PyStr("hourly")},
        g \in {None, PyStr("country"), PyStr("time"), PyStr("year")},
        a \in {None, PyStr("max"), PyList(<<"sum">>)},
        s \in {"ascending", "descending", "up"},
        n \in {None} \cup {PyInt(i) : i \in 0..MaxN} }

\* requests with no level or an unknown one, and other arguments
NinjaInvalidLevelRequests ==
    { NinjaRequest(l, None, c, None, m, None, None, dm, g, a, "ascending", n) :
        l \in {None, PyStr("hydro")},
        c \in {None, PyList(<<"India", "Atlantis">>)},
        m \in {None, PyList(<<20, 12>>)},
        dm \in {None, PyStr("hourly")},
        g \in {None, PyStr("year")},
        a \in {None, PyStr("max")},
        n \in {None, PyInt(1)} }

NinjaRequests ==
    NinjaLevelRequests \cup NinjaFilterRequests \cup NinjaPipelineRequests
        \cup NinjaInvalidLevelRequests

\* if(level in ['pv', 'wind']) with the test always passing
NinjaValidLevelAny(level) == TRUE

\* if(level in ['pv', 'wind'])
NinjaValidLevel(level) == level \in {PyStr("pv"), PyStr("wind")}

\* the choice of the source table; an invalid level ends the call with data None
NinjaStart ==
    /\ pc = "idle"
    /\ tool' = "get_ren_ninja"
    /\ \E r \in NinjaRequests :
        /\ req' = r
        /\ IF NinjaValidLevel(r.level)
           THEN /\ filtered_data' = tables[NinjaSource(r.level, r.flag)]
                /\ messages' = <<>>
                /\ pc' = "filter"
                /\ UNCHANGED <<stages, result>>
           ELSE /\ messages' = << Msg("Value error: Invalid level specified.", <<>>) >>
                /\ result' = Returned([data |-> None, messages |-> messages'])
                /\ stages' = <<"assemble">>
                /\ pc' = "done"
                /\ UNCHANGED filtered_data
    /\ UNCHANGED <<presort, sorted_data, tables, endpoint, shapes, recorded, surface_years>>

NinjaFilter ==
    /\ pc = "filter"
    /\ tool = "get_ren_ninja"
    /\ \E how \in (IF Truthy(req.dates) THEN {"parsed", "never"} ELSE {"parsed"}) :
        LET s == NinjaFilterData(NinjaStructData(filtered_data), <<>>, req, how)
        IN /\ filtered_data' = s.df
           /\ messages' = s.messages
    /\ stages' = Append(stages, "filter")
    /\ pc' = "merge"
    /\ UNCHANGED <<tool, req, presort, sorted_data, result, tables, endpoint, shapes, recorded, surface_years>>

\* Step "Perform data merging": only with data_merge
NinjaMerge ==
    /\ pc = "merge"
    /\ tool = "get_ren_ninja"
    /\ IF Truthy(req.data_merge)
       THEN LET r == NinjaMergeData(filtered_data, req.data_merge)
            IN IF r.ok
               THEN /\ filtered_data' = r.val
                    /\ stages' = Append(stages, "merge")
                    /\ pc' = "aggregate"
                    /\ UNCHANGED result
               ELSE /\ result' = Raised(r.exc)
                    /\ pc' = "raised"
                    /\ UNCHANGED <<filtered_data, stages>>
       ELSE /\ pc' = "aggregate"
            /\ UNCHANGED <<filtered_data, stages, result>>
    /\ UNCHANGED <<tool, req, messages, presort, sorted_data, tables, endpoint, shapes, recorded, surface_years>>

\* Step "Perform aggregations": only with group_by or aggregate
NinjaAggregate ==
    /\ pc = "aggregate"
    /\ tool = "get_ren_ninja"
    /\ IF Truthy(req.group_by) \/ Truthy(req.aggregate)
       THEN LET r == NinjaAggregateData(filtered_data, req.aggregate, req.group_by)
            IN IF r.ok
               THEN /\ filtered_data' = r.val
                    /\ stages' = Append(stages, "aggregate")
                    /\ pc' = "sort"
                    /\ UNCHANGED result
               ELSE /\ result' = Raised(r.exc)
                    /\ pc' = "raised"
                    /\ UNCHANGED <<filtered_data, stages>>
       ELSE /\ pc' = "sort"
            /\ UNCHANGED <<filtered_data, stages, result>>
    /\ UNCHANGED <<tool, req, messages, presort, sorted_data, tables, endpoint, shapes, recorded, surface_years>>

NinjaSort ==
    /\ pc = "sort"
    /\ tool = "get_ren_ninja"
    /\ presort' = filtered_data
    /\ LET r == NinjaSortData(filtered_data, req.sort)
       IN IF r.ok
          THEN /\ \E s \in r.val :
                    /\ filtered_data' = s
                    /\ sorted_data' = s
               /\ stages' = Append(stages, "sort")
               /\ pc' = "truncate"
               /\ UNCHANGED result
          ELSE /\ result' = Raised(r.exc)
               /\ pc' = "raised"
               /\ UNCHANGED <<filtered_data, sorted_data, stages>>
    /\ UNCHANGED <<tool, req, messages, tables, endpoint, shapes, recorded, surface_years>>

NinjaTruncate ==
    /\ pc = "truncate"
    /\ tool = "get_ren_ninja"
    /\ filtered_data' = NinjaTruncateRows(filtered_data, req.n)
    /\ stages' = IF Truthy(req.n) THEN Append(stages, "truncate") ELSE stages
    /\ pc' = "assemble"
    /\ UNCHANGED <<tool, req, messages, presort, sorted_data, result, tables, endpoint, shapes, recorded, surface_years>>

NinjaAssemble ==
    /\ pc = "assemble"
    /\ tool = "get_ren_ninja"
    /\ result' = Returned([data |-> PyList(ToRecords(filtered_data)), messages |-> messages])
    /\ stages' = Append(stages, "assemble")
    /\ pc' = "done"
    /\ UNCHANGED <<tool, req, filtered_data, messages, presort, sorted_data, tables, endpoint, shapes, recorded, surface_years>>

-----------------------------------------------------------------------------
(* Facades whose run_impl is a single step.  A returned value carries its   *)
(* shape: the Python type of the object and, for a dict, its keys.          *)

\* isinstance(x, str) / isinstance(x, int): x = [x]
AsList(x) == IF x.k = "list" THEN x.v ELSE <<x.v>>

\* the argument after the normalisation to a list that run_impl applies to a truthy value
Normalised(x) == IF Truthy(x) THEN PyList(AsList(x)) ELSE x

All == PyStr("all")

\* df[col].unique().tolist(): the distinct cells in order of first appearance
Unique(df, col) ==
    LET cells == Column(df, col)
        firsts == SelectSeq([i \in DOMAIN cells |-> i],
                            LAMBDA i : \A j \in 1..(i - 1) : cells[j] # cells[i])
    IN [i \in DOMAIN firsts |-> cells[firsts[i]]]

\* df.to_json(orient="records"): a str holding the records
JsonString(df) == [shape |-> "str", json |-> df.rows]

\* df.rename(columns={old: new})
Rename(df, old, new) ==
    LET label(c) == IF c = old THEN new ELSE c
        source(c) == IF c = new THEN old ELSE c
    IN [columns |-> [i \in DOMAIN df.columns |-> label(df.columns[i])],
        rows |-> [i \in DOMAIN df.rows |->
                     [c \in {label(x) : x \in ToSet(df.columns)} |-> df.rows[i][source(c)]]]]

\* df.dropna(subset=cols): the rows without NaN in the columns cols
DropNa(df, cols) ==
    [df EXCEPT !.rows = SelectSeq(df.rows, LAMBDA r : \A c \in ToSet(cols) : r[c] # NaN)]

\* the facades whose returned shapes the history variable shapes collects
ShapeTracked == {"get_emission_data", "get_energy_emission_data"}

\* the call of a single-step facade: its request, its result, and the shape it returned
Invoke(name, r, outcome) ==
    /\ pc = "idle"
    /\ pc' = "done"
    /\ tool' = name
    /\ req' = r
    /\ result' = IF outcome.ok THEN Returned(outcome.val) ELSE Raised(outcome.exc)
    /\ shapes' = IF outcome.ok /\ name \in ShapeTracked
                 THEN shapes \cup {<<name, outcome.val.shape>>}
                 ELSE shapes
    /\ UNCHANGED <<filtered_data, messages, stages, presort, sorted_data, surface_years>>

(* get_emission_data: EmissionDataTool, on the module global emissions_data *)

EmissionColumns ==
    <<"Country or Area", "Year", "sfc_emissions", "n2o_emissions", "methane_emissions",
      "green_house_emissions">>

EmissionRow(c, y, s, n, m, g) ==
    [col \in ToSet(EmissionColumns) |->
        CASE col = "Country or Area" -> c [] col = "Year" -> y [] col = "sfc_emissions" -> s
          [] col = "n2o_emissions" -> n [] col = "methane_emissions" -> m
          [] col = "green_house_emissions" -> g]

\* emissions_data = pd.read_csv('../Datasets/GreenHouseEmissions.csv')
EmissionsTable ==
    [columns |-> EmissionColumns,
     rows |-> << EmissionRow("Australia", 2020, 90, 18, 97, 521),
                 EmissionRow("Australia", 2019, 136, 19, 99, 546),
                 EmissionRow("Brazil", 2020, 145, 20, 105, 552) >>]

\* available_emission_types
AvailableEmissionTypes ==
    <<"sfc_emissions", "n2o_emissions", "methane_emissions", "green_house_emissions">>

EmissionRunImpl(emissions_data, r) ==
    LET by_country == IF r.country = All THEN emissions_data
                      ELSE Isin(emissions_data, "Country or Area", AsList(r.country))
        filtered == IF r.year # All /\ Truthy(r.year)
                    THEN Isin(by_country, "Year", AsList(r.year))
                    ELSE by_country
        given == r.emission_type # All /\ Truthy(r.emission_type)
        missing == SelectSeq(AsList(r.emission_type),
                             LAMBDA e : ~ InSeq(e, emissions_data.columns))
    IN IF given /\ missing # <<>>
       THEN Ok([shape |-> "dict{message,data}",
                message |-> Msg("Emission type(s) do not exist. You might want to request any of the following: ",
                                <<missing, AvailableEmissionTypes>>),
                data |-> JsonString(Project(filtered, <<"Country or Area", "Year">>
                                                      \o AvailableEmissionTypes))])
       ELSE IF r.country = All \/ r.year = All \/ r.emission_type = All
       THEN Ok([shape |-> "dict{countries,years,emission_types,data}",
                countries |-> IF r.country = All
                              THEN PyList(Unique(emissions_data, "Country or Area"))
                              ELSE PyList(AsList(r.country)),
                years |-> IF r.year = All THEN PyList(Unique(emissions_data, "Year"))
                          ELSE Normalised(r.year),
                emission_types |-> IF r.emission_type = All
                                   THEN PyList(SubSeq(emissions_data.columns, 4,
                                                      Len(emissions_data.columns)))
                                   ELSE Normalised(r.emission_type),
                data |-> JsonString(filtered)])
       ELSE IF given
       THEN Ok(JsonString(Project(filtered, <<"Country or Area", "Year">>
                                            \o AsList(r.emission_type))))
       ELSE Raise("UnboundLocalError")     \* data is read but was never assigned

EmissionRequests ==
    { [country |-> c, year |-> y, emission_type |-> e] :
        c \in {All, PyStr("Australia"), PyList(<<"Australia", "Brazil">>), PyList(<<"Atlantis">>)},
        y \in {None, All, PyInt(2020), PyList(<<2019, 2020>>)},
        e \in {None, All, PyStr("sfc_emissions"), PyList(<<"n2o_emissions", "co2">>),
               PyList(<<"sfc_emissions", "methane_emissions">>)} }

EmissionCall ==
    /\ \E r \in EmissionRequests :
          Invoke("get_emission_data", r, EmissionRunImpl(tables["emissions_data"], r))
    /\ UNCHANGED <<tables, endpoint, recorded>>

(* get_energy_emission_data: EnergyEmissionTool, on self.data *)

EnergyRow(c, y, s, v) ==
    [col \in {"Country", "Year", "Series", "Value"} |->
        CASE col = "Country" -> c [] col = "Year" -> y [] col = "Series" -> s [] col = "Value" -> v]

\* pd.read_csv('../Datasets/Energy_Emissions.csv'); a Value cell is a number or text
EnergyTable ==
    [columns |-> <<"Country", "Year", "Series", "Value">>,
     rows |-> << EnergyRow("India", 2019, "Total supply", PyInt(24)),
                 EnergyRow("India", 2020, "Total supply", PyInt(36)),
                 EnergyRow("India", 2020, "Supply per capita", PyInt(12)),
                 EnergyRow("Kenya", 2020, "Total supply", PyStr("...")) >>]

\* pd.to_numeric(df[col], errors='coerce')
ToNumeric(df, col) ==
    [df EXCEPT !.rows = [i \in DOMAIN df.rows |->
                            [df.rows[i] EXCEPT ![col] = IF @.k = "int" THEN @.v ELSE NaN]]]

\* run_impl, line 84, with a list of countries never averaged
EnergyAveragesNamesOnly(r) ==
    r.Country # All /\ r.Country.k # "list" /\ r.Year \in {None, All} /\ r.Series \in {None, All}

\* run_impl, line 84: the condition under which the rows are averaged
EnergyAverages(r) ==
    r.Country # All /\ r.Year \in {None, All} /\ r.Series \in {None, All}

EnergyRunImpl(data, r) ==
    LET s1 == IF r.Country \notin {None, All}
              THEN Isin(data, "Country", AsList(r.Country)) ELSE data
        s2 == IF r.Year \notin {None, All, PyList(<<>>)}
              THEN Isin(s1, "Year", AsList(r.Year)) ELSE s1
        s3 == IF r.Series \notin {None, All, PyList(<<>>)}
              THEN Isin(s2, "Series", AsList(r.Series)) ELSE s2
        numeric == DropNa(ToNumeric(s3, "Value"), <<"Value">>)
    IN IF s3.rows = <<>>
       THEN Ok([shape |-> "dict{message}",
                message |-> Msg("No data available for the specified filters.", <<>>)])
       ELSE IF EnergyAverages(r)
       THEN Ok(JsonString(Rename(GroupByAgg(numeric, <<"Country", "Series">>, <<"Value">>, "mean"),
                                 "Value", "Average Value")))
       ELSE Ok(JsonString(Project(numeric, <<"Country", "Year", "Series", "Value">>)))

EnergyRequests ==
    { [Country |-> c, Year |-> y, Series |-> s] :
        c \in {None, All, PyStr("India"), PyList(<<"India", "Kenya">>), PyList(<<"Atlantis">>)},
        y \in {None, All, PyInt(2020), PyList(<<>>)},
        s \in {None, All, PyStr("Total supply")} }

EnergyCall ==
    /\ \E r \in EnergyRequests :
          Invoke("get_energy_emission_data", r, EnergyRunImpl(tables["energy.data"], r))
    /\ UNCHANGED <<tables, endpoint, recorded>>

(* get_sector_emission_data: SectorEmissionTool, on the module global emissions_data *)

SectorColumns == <<"Country", "Sector", "Year", "Description", "Emission Value">>

SectorRow(c, s, y, d, v) ==
    [col \in ToSet(SectorColumns) |->
        CASE col = "Country" -> c [] col = "Sector" -> s [] col = "Year" -> y
          [] col = "Description" -> d [] col = "Emission Value" -> v]

\* emissions_data = pd.read_csv('../Datasets/Sector_Emissions.csv')
SectorTable ==
    [columns |-> SectorColumns,
     rows |-> << SectorRow("India", "Energy", 2019, "coal", 24),
                 SectorRow("India", "Energy", 2020, "coal", 36),
                 SectorRow("India", "Energy", 2020, "electricity", 12),
                 SectorRow("India", "Transport", 2020, "electricity", 48),
                 SectorRow("Kenya", "Energy", 2020, "coal", 60) >>]

\* `if X and X != "all"`
Concrete(x) == Truthy(x) /\ x # All

\* run_impl without the branch that averages per description
SectorRunImplOneAverage(emissions_data, r) ==
    LET s1 == IF r.Country = All THEN emissions_data
              ELSE Isin(emissions_data, "Country", AsList(r.Country))
        s2 == IF Concrete(r.Sector) THEN Isin(s1, "Sector", AsList(r.Sector)) ELSE s1
        s3 == IF Concrete(r.Year) THEN Isin(s2, "Year", AsList(r.Year)) ELSE s2
        s4 == IF Concrete(r.Description)
              THEN Isin(s3, "Description", AsList(r.Description)) ELSE s3
        averaged == r.Country # All /\ r.Year \in {None, All} /\ r.Sector \in {None, All}
    IN IF averaged /\ r.Description \in {None, All}
       THEN Ok(JsonString(Rename(GroupByAgg(s4, <<"Country", "Sector">>,
                                            <<"Emission Value">>, "mean"),
                                 "Emission Value", "Average Emission Value")))
       ELSE Ok(JsonString(s4))

\* run_impl: the filters, then the averages or the raw rows
SectorRunImpl(emissions_data, r) ==
    LET s1 == IF r.Country = All THEN emissions_data
              ELSE Isin(emissions_data, "Country", AsList(r.Country))
        s2 == IF Concrete(r.Sector) THEN Isin(s1, "Sector", AsList(r.Sector)) ELSE s1
        s3 == IF Concrete(r.Year) THEN Isin(s2, "Year", AsList(r.Year)) ELSE s2
        s4 == IF Concrete(r.Description)
              THEN Isin(s3, "Description", AsList(r.Description)) ELSE s3
        averaged == r.Country # All /\ r.Year \in {None, All} /\ r.Sector \in {None, All}
    IN IF averaged /\ r.Description \in {None, All}
       THEN Ok(JsonString(Rename(GroupByAgg(s4, <<"Country", "Sector">>,
                                            <<"Emission Value">>, "mean"),
                                 "Emission Value", "Average Emission Value")))
       ELSE IF averaged /\ Truthy(r.Description)
       THEN Ok(JsonString(Rename(GroupByAgg(s4, <<"Country", "Sector", "Description">>,
                                            <<"Emission Value">>, "mean"),
                                 "Emission Value", "Average Emission Value")))
       ELSE Ok(JsonString(s4))

SectorRequests ==
    { [Country |-> c, Sector |-> s, Year |-> y, Description |-> d] :
        c \in {All, PyStr("India"), PyList(<<"India", "Kenya">>)},
        s \in {None, All, PyStr("Energy")},
        y \in {None, All, PyInt(2020)},
        d \in {None, All, PyStr(""), PyList(<<"coal">>)} }

SectorCall ==
    /\ \E r \in SectorRequests :
          Invoke("get_sector_emission_data", r,
                 SectorRunImpl(tables["sector.emissions_data"], r))
    /\ UNCHANGED <<tables, endpoint, recorded>>

(* get_country_rating: RatingCountryTool, on the module global emissions_data *)

RatingRow(c, o, p) ==
    [col \in {"Country", "Overall rating", "Policies and action"} |->
        CASE col = "Country" -> c [] col = "Overall rating" -> o
          [] col = "Policies and action" -> p]

\* emissions_data = pd.read_csv('../Datasets/country_rating_data.csv')
RatingTable ==
    [columns |-> <<"Country", "Overall rating", "Policies and action">>,
     rows |-> << RatingRow("Brazil", "Insufficient", "Insufficient"),
                 RatingRow("India", "Insufficient", "Almost sufficient"),
                 RatingRow("India", "Insufficient", "Insufficient") >>]

\* [comp.strip() for comp in Component.split(",")]
SplitComponents(text) ==
    CASE text = "Overall rating, Net zero target" -> <<"Overall rating", "Net zero target">>
      [] OTHER -> <<text>>

\* df.drop_duplicates(): the first of every run of equal rows
DropDuplicates(df) ==
    LET keep == SelectSeq([i \in DOMAIN df.rows |-> i],
                          LAMBDA i : \A j \in 1..(i - 1) : df.rows[j] # df.rows[i])
    IN [df EXCEPT !.rows = [i \in DOMAIN keep |-> df.rows[keep[i]]]]

RatingRunImpl(emissions_data, r) ==
    LET filtered == IF r.Country = All THEN emissions_data
                    ELSE Isin(emissions_data, "Country", AsList(r.Country))
        components == IF r.Component.k = "str" THEN SplitComponents(r.Component.v)
                      ELSE r.Component.v
        selected == IF r.Component \in {All, None} THEN emissions_data.columns
                    ELSE <<"Country">> \o SelectSeq(components,
                                                    LAMBDA c : InSeq(c, emissions_data.columns))
    IN Ok(JsonString(DropDuplicates(Project(filtered, selected))))

RatingRequests ==
    { [Country |-> c, Component |-> k] :
        c \in {All, PyStr("India"), PyList(<<"India", "Brazil">>)},
        k \in {None, All, PyStr("Overall rating, Net zero target"),
               PyList(<<"Policies and action">>)} }

RatingCall ==
    /\ \E r \in RatingRequests :
          Invoke("get_country_rating", r, RatingRunImpl(tables["rating.emissions_data"], r))
    /\ UNCHANGED <<tables, endpoint, recorded>>

(* get_oil_info: OilInfoTool, on self.data; requests carry filters only *)

OilRow(c, y, v) ==
    [col \in {"Country", "Year", "Oil production"} |->
        CASE col = "Country" -> c [] col = "Year" -> y [] col = "Oil production" -> v]

\* pd.read_csv('../Datasets/oil_info.csv')
OilTable ==
    [columns |-> <<"Country", "Year", "Oil production">>,
     rows |-> << OilRow("India", 2019, 24), OilRow("India", 2020, 36),
                 OilRow("Kenya", 2020, 12) >>]

RECURSIVE OilFilterData(_, _)
\* filter_data(filters): filters is the sequence of the dict's (column, value) items
OilFilterData(data, filters) ==
    IF filters = <<>> THEN Ok(data)
    ELSE LET col == filters[1][1]
             val == filters[1][2]
         IN IF val = All THEN OilFilterData(data, Tail(filters))
            ELSE IF ~ InSeq(col, data.columns) THEN Raise("KeyError")
            ELSE OilFilterData(Isin(data, col, AsList(val)), Tail(filters))

\* run_impl with group_by, agg_col, agg_func, trend and predict absent
OilRunImpl(data, r) ==
    LET filtered == IF r.filters # <<>> THEN OilFilterData(data, r.filters) ELSE Ok(data)
    IN IF filtered.ok
       THEN Ok([shape |-> "dict{status,result}", status |-> "success",
                result |-> ToRecords(filtered.val)])
       ELSE Ok([shape |-> "dict{status,message}", status |-> "error",
                message |-> filtered.exc])

OilRequests ==
    { [filters |-> f] :
        f \in { <<>> } \cup
              { << <<"Country", c>> >> : c \in {All, PyStr("India"), PyList(<<"Kenya", "Atlantis">>)} } \cup
              { << <<"Country", c>>, <<"Year", y>> >> :
                    c \in {All, PyStr("India")}, y \in {All, PyInt(2020)} } \cup
              { << <<"Region", c>> >> : c \in {All, PyStr("Asia")} } }

OilCall ==
    /\ \E r \in OilRequests : Invoke("get_oil_info", r, OilRunImpl(tables["oil.data"], r))
    /\ UNCHANGED <<tables, endpoint, recorded>>

(* get_carbon_emission_data: CarbonEmissionDataTool, on self.data.  A date  *)
(* 'DD/MM/YYYY' is <<day, month, year>>.                                     *)

CarbonRow(c, s, d, v) ==
    [col \in {"country", "sector", "date", "MtCO2 per day"} |->
        CASE col = "country" -> c [] col = "sector" -> s [] col = "date" -> d
          [] col = "MtCO2 per day" -> v]

\* pd.read_csv('../Datasets/carbon_monitor_global.csv')
CarbonTable ==
    [columns |-> <<"country", "sector", "date", "MtCO2 per day">>,
     rows |-> << CarbonRow("India", "Residential", <<1, 1, 2023>>, 12),
                 CarbonRow("India", "Power", <<2, 1, 2023>>, 24),
                 CarbonRow("India", "Power", <<1, 1, 2024>>, 36),
                 CarbonRow("Brazil", "Industry", <<1, 2, 2023>>, 36) >>]

\* run_impl with the years tested before the dates
CarbonRunImplYearsFirst(data, r) ==
    LET s1 == FilterStep(data, <<>>, "country", r.countries,
                         "Data for the following countries isn't available: ")
        s2 == FilterStep(s1.df, s1.messages, "sector", r.sectors,
                         "Data for the following sectors in these countries isn't available: ")
        by_time == IF Truthy(r.years)
                   THEN [s2.df EXCEPT !.rows =
                            SelectSeq(s2.df.rows, LAMBDA x : InSeq(x["date"][3], r.years.v))]
                   ELSE IF Truthy(r.dates) THEN Isin(s2.df, "date", r.dates.v)
                   ELSE s2.df
        method == IF Truthy(r.dates) \/ Truthy(r.years) THEN "sum" ELSE "mean"
        summary == GroupByAgg(by_time, <<"country", "sector">>, <<"MtCO2 per day">>, method)
        renamed == Rename(Rename(Rename(summary, "country", "Country"), "sector", "Sector"),
                          "MtCO2 per day", "Emissions")
    IN Ok([shape |-> "dict{data,messages}", data |-> ToRecords(renamed),
           messages |-> s2.messages])

\* run_impl: filters, the reduction chosen by dates / years, the renamed summary
CarbonRunImpl(data, r) ==
    LET s1 == FilterStep(data, <<>>, "country", r.countries,
                         "Data for the following countries isn't available: ")
        s2 == FilterStep(s1.df, s1.messages, "sector", r.sectors,
                         "Data for the following sectors in these countries isn't available: ")
        by_time == IF Truthy(r.dates) THEN Isin(s2.df, "date", r.dates.v)
                   ELSE IF Truthy(r.years)
                   THEN [s2.df EXCEPT !.rows =
                            SelectSeq(s2.df.rows, LAMBDA x : InSeq(x["date"][3], r.years.v))]
                   ELSE s2.df
        method == IF Truthy(r.dates) \/ Truthy(r.years) THEN "sum" ELSE "mean"
        summary == GroupByAgg(by_time, <<"country", "sector">>, <<"MtCO2 per day">>, method)
        renamed == Rename(Rename(Rename(summary, "country", "Country"), "sector", "Sector"),
                          "MtCO2 per day", "Emissions")
    IN Ok([shape |-> "dict{data,messages}", data |-> ToRecords(renamed),
           messages |-> s2.messages])

CarbonRequests ==
    { [countries |-> c, sectors |-> s, years |-> y, dates |-> d] :
        c \in {None, PyList(<<"India">>), PyList(<<"Brazil", "Atlantis">>)},
        s \in {None, PyList(<<"Power">>), PyList(<<"Power", "Mining">>)},
        y \in {None, PyList(<<2023>>), PyList(<<1999>>), PyList(<<2024, 1999>>)},
        d \in {None, PyList(<< <<1, 1, 2023>> >>), PyList(<< <<9, 9, 2029>> >>),
               PyList(<< <<2, 1, 2023>>, <<1, 1, 2024>> >>)} }

CarbonCall ==
    /\ \E r \in CarbonRequests :
          Invoke("get_carbon_emission_data", r, CarbonRunImpl(tables["carbon.data"], r))
    /\ UNCHANGED <<tables, endpoint, recorded>>

(* get_average_emission_data: EmissionDataTool_Average, on self.data *)

\* pd.read_csv('../Datasets/GreenHouseEmissions.csv'), rows not in year order
AverageTable ==
    [columns |-> EmissionColumns,
     rows |-> << EmissionRow("Australia", 2019, 136, 19, 99, 546),
                 EmissionRow("Australia", 2021, 104, 17, 95, 520),
                 EmissionRow("Brazil", 2020, 145, 20, 105, 552),
                 EmissionRow("Australia", 2020, 90, 18, 97, 521),
                 EmissionRow("Brazil", 2019, 141, 22, 103, 548) >>]

\* str.lower(), word by word: a text is the sequence of its words
Lower(text) ==
    [i \in DOMAIN text |->
        CASE text[i] = "Average" -> "average" [] text[i] = "Last" -> "last"
          [] text[i] = "First" -> "first" [] text[i] = "Trend" -> "trend"
          [] text[i] \in {"All", "ALL"} -> "all"
          [] OTHER -> text[i]]

\* words in text: the words occur in the text, next to each other and in order
Contains(text, words) ==
    \E k \in 0..(Len(text) - Len(words)) : \A i \in DOMAIN words : text[k + i] = words[i]

AverageError(text, values) == [shape |-> "dict{error}", error |-> Msg(text, values)]

\* the trend answer of lines 70-72, 76-78 and 82-84
AverageTrend(filtered, r, ascending, label) ==
    { [shape |-> "dict{country,emission_type,trend_type,num_years,data}",
       country |-> r.country, emission_type |-> r.emission_type, trend_type |-> label,
       num_years |-> r.num_years,
       data |-> ToRecords(Project(HeadRows(ordered, r.num_years),
                                  <<"Year", r.emission_type>>))] :
        ordered \in SortValues(filtered, <<"Year">>, ascending) }

\* the elif chain of lines 64-88 with 'first' tested before 'last'
AverageByTrendFirstBeforeLast(filtered, r) ==
    LET trend == Lower(r.trend_type)
    IN IF trend = <<"average">>
       THEN {[shape |-> "dict{country,emission_type,average_emission}",
              country |-> r.country, emission_type |-> r.emission_type,
              average_emission |-> Reduce("mean", Column(filtered, r.emission_type))]}
       ELSE IF Contains(trend, <<"first">>) THEN AverageTrend(filtered, r, TRUE, "first")
       ELSE IF Contains(trend, <<"last">>) THEN AverageTrend(filtered, r, FALSE, "last")
       ELSE IF Contains(trend, <<"trend", "for">>)
       THEN AverageTrend(filtered, r, FALSE, "recent")
       ELSE {AverageError("Invalid trend type. Please choose 'average', 'last x years', 'first x years', or 'trend for x years'.", <<>>)}

\* the elif chain of lines 64-88: the answer for the trend_type
AverageByTrend(filtered, r) ==
    LET trend == Lower(r.trend_type)
    IN IF trend = <<"average">>
       THEN {[shape |-> "dict{country,emission_type,average_emission}",
              country |-> r.country, emission_type |-> r.emission_type,
              average_emission |-> Reduce("mean", Column(filtered, r.emission_type))]}
       ELSE IF Contains(trend, <<"last">>) THEN AverageTrend(filtered, r, FALSE, "last")
       ELSE IF Contains(trend, <<"first">>) THEN AverageTrend(filtered, r, TRUE, "first")
       ELSE IF Contains(trend, <<"trend", "for">>)
       THEN AverageTrend(filtered, r, FALSE, "recent")
       ELSE {AverageError("Invalid trend type. Please choose 'average', 'last x years', 'first x years', or 'trend for x years'.", <<>>)}

\* the message of line 61 with the available emission columns added
AverageMissingTypeWithAlternatives(data, emission_type) ==
    AverageError("Emission type does not exist.", <<emission_type, AvailableEmissionTypes>>)

\* the message of line 61
AverageMissingType(data, emission_type) ==
    AverageError("Emission type does not exist.", <<emission_type>>)

\* run_impl: the results the call can return
AverageRunImpl(data, r) ==
    LET filtered == [data EXCEPT !.rows =
                        SelectSeq(@, LAMBDA row : row["Country or Area"] = r.country)]
    IN IF filtered.rows = <<>>
       THEN {AverageError("No data available for the specified country: .", <<r.country>>)}
       ELSE IF ~ InSeq(r.emission_type, filtered.columns)
       THEN {AverageMissingType(data, r.emission_type)}
       ELSE AverageByTrend(filtered, r)

AverageTrendTypes ==
    { <<"average">>, <<"Average">>, <<"average", "of", "last", "years">>,
      <<"last", "x", "years">>, <<"Last", "years">>, <<"first", "x", "years">>,
      <<"trend", "for", "x", "years">>, <<"trend", "for", "first", "years">>,
      <<"first", "of", "the", "last", "years">>, <<"recent">>, <<"for", "trend">> }

AverageRequests ==
    { [country |-> c, emission_type |-> e, trend_type |-> t, num_years |-> n] :
        c \in {"Australia", "Brazil", "Atlantis"},
        e \in {"sfc_emissions", "n2o_emissions", "co2"},
        t \in AverageTrendTypes,
        n \in (0..MaxN) \cup {5} }

AverageCall ==
    /\ \E r \in AverageRequests :
          \E out \in AverageRunImpl(tables["average.data"], r) :
              Invoke("get_average_emission_data", r, Ok(out))
    /\ UNCHANGED <<tables, endpoint, recorded>>

(* get_average_fuel_emission_data: FuelDataTool_Average, on the module global fuel_data *)

FuelColumns == <<"Country", "Year", "Solid Fuel", "Gas Fuel">>

FuelRow(c, y, s, g) ==
    [col \in ToSet(FuelColumns) |->
        CASE col = "Country" -> c [] col = "Year" -> y [] col = "Solid Fuel" -> s
          [] col = "Gas Fuel" -> g]

\* fuel_data as loaded by pd.read_csv
FuelTable ==
    [columns |-> FuelColumns,
     rows |-> << FuelRow("INDIA", 2019, 40, 12), FuelRow("KENYA", 2019, 3, 1),
                 FuelRow("INDIA", 2020, 44, 14) >>]

\* str.upper() on the country names in use
Upper(name) ==
    CASE name \in {"India", "india"} -> "INDIA" [] name \in {"Kenya", "kenya"} -> "KENYA"
      [] name = "Atlantis" -> "ATLANTIS" [] OTHER -> name

FuelError(text, values) == [shape |-> "dict{error}", error |-> Msg(text, values)]

\* the trend answer of lines 72-74, 78-80 and 84-86
FuelTrend(filtered, country, r, ascending, label) ==
    { [shape |-> "dict{country,fuel_type,trend_type,num_years,data}",
       country |-> country, fuel_type |-> r.fuel_type, trend_type |-> label,
       num_years |-> r.num_years,
       data |-> ToRecords(Project(HeadRows(ordered, r.num_years), <<"Year", r.fuel_type>>))] :
        ordered \in SortValues(filtered, <<"Year">>, ascending) }

\* run_impl: the results the call can return
FuelRunImpl(fuel_data, r) ==
    LET country == Upper(r.country)
        of_country == [fuel_data EXCEPT !.rows =
                          SelectSeq(@, LAMBDA row : Upper(row["Country"]) = country)]
        filtered == IF Truthy(r.year)
                    THEN [of_country EXCEPT !.rows =
                             SelectSeq(@, LAMBDA row : row["Year"] = r.year.v)]
                    ELSE of_country
        trend == Lower(r.trend_type)
    IN IF filtered.rows = <<>>
       THEN {FuelError("No data available for the specified country:  in .",
                       <<country, IF Truthy(r.year) THEN r.year ELSE PyStr("all years")>>)}
       ELSE IF ~ InSeq(r.fuel_type, filtered.columns)
       THEN {FuelError("Fuel type does not exist in the dataset.", <<r.fuel_type>>)}
       ELSE IF trend = <<"average">>
       THEN {[shape |-> "dict{country,fuel_type,average_emission}", country |-> country,
              fuel_type |-> r.fuel_type,
              average_emission |-> Reduce("mean", Column(filtered, r.fuel_type))]}
       ELSE IF Contains(trend, <<"last">>) THEN FuelTrend(filtered, country, r, FALSE, "last")
       ELSE IF Contains(trend, <<"first">>) THEN FuelTrend(filtered, country, r, TRUE, "first")
       ELSE IF Contains(trend, <<"trend", "for">>)
       THEN FuelTrend(filtered, country, r, FALSE, "recent")
       ELSE {FuelError("Invalid trend type. Please choose 'average', 'last x years', 'first x years', or 'trend for x years'.", <<>>)}

FuelRequests ==
    { [country |-> c, fuel_type |-> f, trend_type |-> t, num_years |-> n, year |-> y] :
        c \in {"India", "kenya", "Atlantis"}, f \in {"Solid Fuel", "Coal"},
        t \in {<<"average">>, <<"Last", "years">>, <<"first", "x", "years">>, <<"recent">>},
        n \in {1, 5}, y \in {None, PyInt(2020)} }

\* the tables of the single-step facades
FacadeTables ==
    [t \in {"emissions_data", "energy.data", "sector.emissions_data", "rating.emissions_data",
            "oil.data", "carbon.data", "average.data", "fuel_data"} |->
        CASE t = "emissions_data" -> EmissionsTable
          [] t = "energy.data" -> EnergyTable
          [] t = "sector.emissions_data" -> SectorTable
          [] t = "rating.emissions_data" -> RatingTable
          [] t = "oil.data" -> OilTable
          [] t = "carbon.data" -> CarbonTable
          [] t = "average.data" -> AverageTable
          [] t = "fuel_data" -> FuelTable]

-----------------------------------------------------------------------------
(* get_us_state_weather_data: USStateWeatherDataTool, on the module global  *)
(* state_datasets.  A date is its day number; a 'datetime' cell is the text *)
(* read from the CSV file or, once converted, a timestamp.                  *)

\* the day number that stands for text pd.to_datetime cannot parse
BadDate == 0

DateText(d) == [k |-> "str", v |-> d]
Timestamp(d) == [k |-> "ts", v |-> d]
NaT == [k |-> "nat"]

WeatherColumns == <<"datetime", "tempmax", "tempmin", "temp", "humidity", "precip">>

WeatherRow(d, hi, lo, t, h, p) ==
    [col \in ToSet(WeatherColumns) |->
        CASE col = "datetime" -> d [] col = "tempmax" -> hi [] col = "tempmin" -> lo
          [] col = "temp" -> t [] col = "humidity" -> h [] col = "precip" -> p]

\* state_datasets as loaded by pd.read_csv
StateDatasets ==
    [t \in {"state_datasets.Alabama", "state_datasets.Texas"} |->
        IF t = "state_datasets.Alabama"
        THEN [columns |-> WeatherColumns,
              rows |-> << WeatherRow(DateText(1), 20, 10, 15, 60, 0),
                          WeatherRow(DateText(BadDate), 21, 11, 16, 61, 1),
                          WeatherRow(DateText(3), 22, 12, 17, 62, NaN) >>]
        ELSE [columns |-> WeatherColumns,
              rows |-> << WeatherRow(DateText(2), 30, 20, 25, 50, 2),
                          WeatherRow(DateText(3), 31, 21, 26, 51, 3) >>]]

\* the key of state_datasets[State]
StateKey(State) ==
    CASE State = "Alabama" -> "state_datasets.Alabama" [] State = "Texas" -> "state_datasets.Texas"

\* pd.to_datetime(cell, errors='coerce')
ToDatetime(cell) ==
    IF cell.k = "str" THEN (IF cell.v = BadDate THEN NaT ELSE Timestamp(cell.v)) ELSE cell

\* a conversion that cannot read back the timestamps an earlier call stored
ConvertInPlaceReparsing(weather_data) ==
    LET converted == [i \in DOMAIN weather_data.rows |->
                         [weather_data.rows[i] EXCEPT
                             !["datetime"] = IF @.k = "str" THEN ToDatetime(@) ELSE NaT]]
    IN [weather_data EXCEPT !.rows = SelectSeq(converted, LAMBDA r : r["datetime"] # NaT)]

\* lines 81-82: weather_data['datetime'] = pd.to_datetime(...); dropna(inplace=True),
\* both on the frame held by state_datasets
ConvertInPlace(weather_data) ==
    LET converted == [i \in DOMAIN weather_data.rows |->
                         [weather_data.rows[i] EXCEPT !["datetime"] = ToDatetime(@)]]
    IN [weather_data EXCEPT !.rows = SelectSeq(converted, LAMBDA r : r["datetime"] # NaT)]

WeatherError(text, values) == [shape |-> "dict{error}", error |-> Msg(text, values)]

DefaultAttributes == <<"tempmax", "tempmin", "temp", "humidity", "precip">>

\* run_impl from line 84 on, reading the converted frame
WeatherQuery(weather_data, r) ==
    LET days == [i \in DOMAIN weather_data.rows |-> weather_data.rows[i]["datetime"].v]
        out_of_range == /\ days # <<>>
                        /\ (r.StartDate < SeqMin(days) \/ r.EndDate > SeqMax(days))
        missing == IF Truthy(r.Attributes)
                   THEN SelectSeq(r.Attributes.v, LAMBDA a : ~ InSeq(a, weather_data.columns))
                   ELSE <<>>
        attributes == IF Truthy(r.Attributes) THEN r.Attributes.v ELSE DefaultAttributes
        in_range == [weather_data EXCEPT !.rows =
                        SelectSeq(weather_data.rows,
                                  LAMBDA x : /\ x["datetime"].v >= r.StartDate
                                             /\ x["datetime"].v <= r.EndDate)]
        result_data == DropNa(Project(in_range, <<"datetime">> \o attributes), attributes)
    IN IF r.StartDate = BadDate \/ r.EndDate = BadDate
       THEN WeatherError("Invalid date format. Use 'YYYY-MM-DD'.", <<>>)
       ELSE IF out_of_range
       THEN WeatherError("Data is only available from/to ", <<r.State, SeqMin(days), SeqMax(days)>>)
       ELSE IF missing # <<>>
       THEN WeatherError("The following attributes are not available in the dataset: ",
                         <<r.State>> \o missing)
       ELSE IF result_data.rows = <<>>
       THEN WeatherError("No data available for the specified date range and attributes.", <<>>)
       ELSE [shape |-> "dict{status,data}", status |-> "success",
             data |-> ToRecords(result_data)]

\* run_impl: the value returned and the state_datasets it leaves
WeatherRunImpl(datasets, r) ==
    IF r.State \notin {"Alabama", "Texas"}
    THEN [val |-> WeatherError("No data available for the specified state: ", <<r.State>>),
          datasets |-> datasets]
    ELSE LET converted == ConvertInPlace(datasets[StateKey(r.State)])
         IN [val |-> WeatherQuery(converted, r),
             datasets |-> [datasets EXCEPT ![StateKey(r.State)] = converted]]

\* the last day number requests name (one past the data)
MaxDay == 4

WeatherRequest(State, StartDate, EndDate, Attributes) ==
    [State |-> State, StartDate |-> StartDate, EndDate |-> EndDate, Attributes |-> Attributes]

WeatherRequests ==
    { WeatherRequest(s, a, 3, at) :
        s \in {"Alabama", "Texas"},
        a \in {BadDate, 1, 2},
        at \in {None, PyList(<<"temp">>), PyList(<<"precip", "wind">>)} }
    \cup { WeatherRequest(s, 1, MaxDay, None) : s \in {"Alabama", "Texas"} }
    \cup { WeatherRequest("Ohio", 1, 3, None) }

\* history: a call may be kept as the recorded one if none is recorded yet; a later
\* call of the recorded facade with the recorded request marks it as made again
RecordCall(name, r) ==
    IF recorded = NoResult
    THEN \E keep \in BOOLEAN :
            recorded' = IF keep
                        THEN [tool |-> name, req |-> r, result |-> result', again |-> FALSE]
                        ELSE NoResult
    ELSE recorded' = [recorded EXCEPT !.again = @ \/ (recorded.tool = name /\ recorded.req = r)]

WeatherCall ==
    \E r \in WeatherRequests :
        LET out == WeatherRunImpl(tables, r)
        IN /\ Invoke("get_us_state_weather_data", r, Ok(out.val))
           /\ tables' = out.datasets
           /\ RecordCall("get_us_state_weather_data", r)
           /\ UNCHANGED endpoint

(* get_surface_temperature_change: SurfaceTemperatureChangeTool, on self.data *)

\* str(year) / int(col) for the year columns of the table
YearLabel(y) ==
    CASE y = 1999 -> "1999" [] y = 2000 -> "2000" [] y = 2001 -> "2001" [] OTHER -> "none"

SurfaceRow(c, a, b, d) ==
    [col \in {"Country", "1999", "2000", "2001"} |->
        CASE col = "Country" -> c [] col = "1999" -> a [] col = "2000" -> b [] col = "2001" -> d]

\* pd.read_csv('../Datasets/Climate_Indicators.csv')
SurfaceTable ==
    [columns |-> <<"Country", "1999", "2000", "2001">>,
     rows |-> << SurfaceRow("India", 60, 120, 180),
                 SurfaceRow("Kenya", 66, 132, 198),
                 SurfaceRow("Brazil", NaN, 30, 246) >>]

\* [c.strip() for c in country.split(',')]
SplitCountries(text) ==
    CASE text = "India, Kenya" -> <<"India", "Kenya">> [] OTHER -> <<text>>

\* list(range(start, stop, step)) for step > 0
Range(start, stop, step) ==
    LET n == IF stop > start THEN ((stop - start - 1) \div step) + 1 ELSE 0
    IN [i \in 1..n |-> start + (i - 1) * step]

\* determine_years(data, start_year, end_year, decade_start, interval): year labels
DetermineYears(data, start_year, end_year, decade_start, interval) ==
    LET available_years == SelectSeq(<<1999, 2000, 2001>>,
                                     LAMBDA y : InSeq(YearLabel(y), data.columns))
        labels(ys) == LET kept == SelectSeq(ys, LAMBDA y : InSeq(y, available_years))
                      IN [i \in DOMAIN kept |-> YearLabel(kept[i])]
        data_min_year == SeqMin(available_years)
        data_max_year == SeqMax(available_years)
        max2(a, b) == IF a > b THEN a ELSE b
        min2(a, b) == IF a < b THEN a ELSE b
        start == IF Truthy(start_year) THEN max2(start_year.v, data_min_year)
                 ELSE data_min_year
        end == IF Truthy(start_year) /\ Truthy(end_year)
               THEN min2(end_year.v, data_max_year)
               ELSE data_max_year
    IN IF available_years = <<>> THEN <<>>
       ELSE IF Truthy(interval) THEN labels(Range(start, end + 1, interval.v))
       ELSE IF Truthy(start_year) /\ Truthy(end_year)
       THEN labels(Range(start_year.v, end_year.v + 1, 1))
       ELSE IF Truthy(start_year) THEN labels(<<start_year.v>>)
       ELSE IF Truthy(decade_start) THEN labels(Range(decade_start.v, decade_start.v + 10, 1))
       ELSE labels(available_years)

\* calculate_metric(data, years, metric) for metric 'average' and 'sum': the row-wise
\* reduction skipping NaN, then data[['Country', 'Metric']].dropna()
CalculateMetric(data, years, metric) ==
    LET cells(r) == SelectSeq([i \in DOMAIN years |-> r[years[i]]], LAMBDA v : v # NaN)
        value(r) == IF metric = "average" THEN Reduce("mean", cells(r))
                    ELSE Reduce("sum", cells(r))
    IN DropNa([columns |-> <<"Country", "Metric">>,
               rows |-> [i \in DOMAIN data.rows |->
                            [c \in {"Country", "Metric"} |->
                                IF c = "Country" THEN data.rows[i]["Country"]
                                ELSE value(data.rows[i])]]],
              <<"Metric">>)

SurfaceResult(status, data) == [shape |-> "dict{status,data}", status |-> status, data |-> data]
SurfaceError(text) == SurfaceResult("error", << Msg(text, <<>>) >>)

\* compare_years_with_difference(data, year1, year2, threshold, increase_only)
CompareYearsWithDifference(data, year1, year2, threshold, increase_only) ==
    LET y1 == YearLabel(year1)
        y2 == YearLabel(year2)
        diff(r) == IF r[y1] = NaN \/ r[y2] = NaN THEN NaN ELSE r[y2] - r[y1]
        abs(x) == IF x < 0 THEN 0 - x ELSE x
        exceeds(r) == /\ r[y1] # NaN
                      /\ r[y2] # NaN
                      /\ IF increase_only THEN diff(r) > threshold ELSE abs(diff(r)) > threshold
        kept == SelectSeq(data.rows, exceeds)
    IN IF ~ InSeq(y1, data.columns) \/ ~ InSeq(y2, data.columns)
       THEN {SurfaceError("Specified years are not in the dataset.")}
       ELSE IF kept = <<>>
       THEN {SurfaceError("No countries found with temperature change difference exceeding the specified threshold.")}
       ELSE {SurfaceResult("success",
                           [i \in DOMAIN kept |->
                               [c \in {"Country", "Difference"} |->
                                   IF c = "Country" THEN kept[i]["Country"] ELSE diff(kept[i])]])}

\* run_impl, lines 127-149: the query mode the if / elif chain selects
SurfaceModeTopNFirst(r) ==
    IF /\ r.compare_years_difference
       /\ Truthy(r.start_year) /\ Truthy(r.end_year)
       /\ r.difference_threshold # None
    THEN "compare"
    ELSE IF r.top_n # None THEN "top_n"
    ELSE IF r.threshold # None THEN "threshold"
    ELSE "default"

SurfaceMode(r) ==
    IF /\ r.compare_years_difference
       /\ Truthy(r.start_year) /\ Truthy(r.end_year)
       /\ r.difference_threshold # None
    THEN "compare"
    ELSE IF r.threshold # None THEN "threshold"
    ELSE IF r.top_n # None THEN "top_n"
    ELSE "default"

\* run_impl, lines 132-137: countries whose average over the years reaches the threshold
SurfaceThreshold(filtered, selected, r) ==
    LET m == CalculateMetric(filtered, selected, "average")
        over == [m EXCEPT !.rows = SelectSeq(m.rows, LAMBDA x : x["Metric"] >= r.threshold.v)]
    IN {IF over.rows = <<>>
        THEN SurfaceError("No countries found exceeding the specified threshold.")
        ELSE SurfaceResult("success", ToRecords(over))}

\* run_impl, lines 140-146: the first top_n countries by the sum over the years
SurfaceTopN(filtered, selected, r) ==
    {IF HeadRows(ordered, r.top_n.v).rows = <<>>
     THEN SurfaceError("No data available after sorting.")
     ELSE SurfaceResult("success", ToRecords(HeadRows(ordered, r.top_n.v))) :
        ordered \in SortValues(CalculateMetric(filtered, selected, "sum"),
                               <<"Metric">>, r.ascending)}

\* run_impl, lines 149-153: the rows of the selected years without NaN
SurfaceDefault(filtered, selected) ==
    LET plain == DropNa(Project(filtered, <<"Country">> \o selected), selected)
    IN {IF plain.rows = <<>>
        THEN SurfaceError("No data available for the specified parameters.")
        ELSE SurfaceResult("success", ToRecords(plain))}

\* the results of one query mode
SurfaceModeResults(mode, filtered, selected, r) ==
    CASE mode = "compare" ->
            CompareYearsWithDifference(filtered, r.start_year.v, r.end_year.v,
                                       r.difference_threshold.v, r.increase_only)
      [] mode = "threshold" -> SurfaceThreshold(filtered, selected, r)
      [] mode = "top_n" -> SurfaceTopN(filtered, selected, r)
      [] OTHER -> SurfaceDefault(filtered, selected)

\* filtered_data after the country filter of lines 116-118
SurfaceFilterCountry(data, r) ==
    IF Truthy(r.country) THEN Isin(data, "Country", SplitCountries(r.country.v)) ELSE data

\* run_impl with the years looked at before the country filter's result is tested
SurfaceRunYearsFirst(data, r) ==
    LET filtered == SurfaceFilterCountry(data, r)
        selected == DetermineYears(filtered, r.start_year, r.end_year,
                                   r.decade_start, r.interval)
        outcome(val, steps, ys) == [val |-> val, steps |-> steps, years |-> ys]
    IN IF data.rows = <<>>
       THEN {outcome(SurfaceError("No data available for the specified parameters."),
                     <<>>, <<>>)}
       ELSE IF selected = <<>>
       THEN {outcome(SurfaceError("No valid years specified or years not found in the dataset."),
                     <<"filter", "determine_years">>, <<>>)}
       ELSE IF Truthy(r.country) /\ filtered.rows = <<>>
       THEN {outcome(SurfaceError("No data available for the specified country(s)."),
                     <<"filter">>, <<>>)}
       ELSE {outcome(val, <<"filter", "determine_years", SurfaceMode(r)>>, selected) :
                val \in SurfaceModeResults(SurfaceMode(r), filtered, selected, r)}

\* run_impl: the outcomes of a call, each with the result returned (val), the steps
\* executed (steps) and the list determine_years returned (years)
SurfaceRun(data, r) ==
    LET filtered == SurfaceFilterCountry(data, r)
        selected == DetermineYears(filtered, r.start_year, r.end_year,
                                   r.decade_start, r.interval)
        outcome(val, steps, ys) == [val |-> val, steps |-> steps, years |-> ys]
    IN IF data.rows = <<>>
       THEN {outcome(SurfaceError("No data available for the specified parameters."),
                     <<>>, <<>>)}
       ELSE IF Truthy(r.country) /\ filtered.rows = <<>>
       THEN {outcome(SurfaceError("No data available for the specified country(s)."),
                     <<"filter">>, <<>>)}
       ELSE IF selected = <<>>
       THEN {outcome(SurfaceError("No valid years specified or years not found in the dataset."),
                     <<"filter", "determine_years">>, <<>>)}
       ELSE {outcome(val, <<"filter", "determine_years", SurfaceMode(r)>>, selected) :
                val \in SurfaceModeResults(SurfaceMode(r), filtered, selected, r)}

\* run_impl: the results the call can return
SurfaceRunImpl(data, r) == {out.val : out \in SurfaceRun(data, r)}

SurfaceRequest(country, start_year, end_year, threshold, top_n, ascending, decade_start,
               interval, compare_years_difference, difference_threshold, increase_only) ==
    [country |-> country, start_year |-> start_year, end_year |-> end_year,
     threshold |-> threshold, top_n |-> top_n, ascending |-> ascending,
     decade_start |-> decade_start, interval |-> interval,
     compare_years_difference |-> compare_years_difference,
     difference_threshold |-> difference_threshold, increase_only |-> increase_only]

\* requests that exercise the choice of years
SurfaceYearRequests ==
    { SurfaceRequest(c, s, e, None, None, FALSE, di[1], di[2], FALSE, None, TRUE) :
        c \in {None, PyStr("India, Kenya")},
        s \in {None, PyInt(2000), PyInt(1990)},
        e \in {None, PyInt(2001)},
        di \in { <<None, None>>, <<PyInt(2000), None>>, <<None, PyInt(2)>> } }
    \cup
    { SurfaceRequest(PyStr("Atlantis"), None, None, None, None, FALSE, None, None, FALSE,
                     None, TRUE) }

\* requests that exercise the query modes
SurfaceModeRequests ==
    { SurfaceRequest(None, PyInt(1999), PyInt(2001), t, PyInt(2), FALSE, None, None, cmp, d,
                     TRUE) :
        t \in {None, PyInt(150)}, cmp \in BOOLEAN, d \in {None, PyInt(125)} }
    \cup
    { SurfaceRequest(None, PyInt(1999), PyInt(2001), None, n, a, None, None, FALSE, None,
                     TRUE) :
        n \in {None, PyInt(0), PyInt(2)}, a \in BOOLEAN }
    \cup
    { SurfaceRequest(None, PyInt(2001), PyInt(2000), None, None, FALSE, None, None, TRUE,
                     PyInt(50), inc) : inc \in BOOLEAN }

SurfaceRequests == SurfaceYearRequests \cup SurfaceModeRequests

\* the keyword arguments r of a call made on the tool instance that holds the table inst
OnInstance(r, inst) ==
    [f \in DOMAIN r \cup {"self"} |-> IF f = "self" THEN inst ELSE r[f]]

\* one call of run_impl on an instance, to its return
SurfaceInvoke(r, out) ==
    /\ pc = "idle"
    /\ pc' = "done"
    /\ tool' = "get_surface_temperature_change"
    /\ req' = r
    /\ result' = Returned(out.val)
    /\ stages' = out.steps
    /\ surface_years' = out.years
    /\ UNCHANGED <<filtered_data, messages, presort, sorted_data, tables, endpoint, shapes>>

SurfaceCall ==
    \E r \in SurfaceRequests :
        \E out \in SurfaceRun(tables["surface.data"], r) :
            /\ SurfaceInvoke(OnInstance(r, "surface.data"), out)
            /\ RecordCall("get_surface_temperature_change", OnInstance(r, "surface.data"))

\* the year arguments determine_years is called with
SurfaceYearArguments ==
    { <<s, e, d, i>> :
        s \in {None, PyInt(1990), PyInt(1999), PyInt(2000), PyInt(2001), PyInt(2005)},
        e \in {None, PyInt(1998), PyInt(2000), PyInt(2001), PyInt(2010)},
        d \in {None, PyInt(1995), PyInt(2010)},
        i \in {None, PyInt(1), PyInt(2)} }

\* the arguments that select a query mode
SurfaceModeArguments ==
    { <<t, n, cmp, d>> :
        t \in {None, PyInt(150)}, n \in {None, PyInt(0), PyInt(2)}, cmp \in BOOLEAN,
        d \in {None, PyInt(50), PyInt(125)} }

\* calls on the instance loaded from the data set and on an instance given an empty table
SurfaceQueryRequests ==
    { OnInstance(SurfaceRequest(c, y[1], y[2], None, None, FALSE, y[3], y[4], FALSE, None,
                                TRUE), "surface.data") :
        c \in {None, PyStr("India, Kenya")}, y \in SurfaceYearArguments }
    \cup
    { OnInstance(SurfaceRequest(c, s, PyInt(2001), m[1], m[2], a, None, None, m[3], m[4],
                                ~ a), "surface.data") :
        c \in {None, PyStr("Brazil"), PyStr("Atlantis")}, s \in {None, PyInt(1999), PyInt(2005)},
        m \in SurfaceModeArguments, a \in BOOLEAN }
    \cup
    { OnInstance(SurfaceRequest(c, None, None, t, None, FALSE, None, None, FALSE, None, TRUE),
                 "surface.empty") :
        c \in {None, PyStr("India")}, t \in {None, PyInt(150)} }

\* a call of run_impl with any of the query requests
SurfaceQuery ==
    \E r \in SurfaceQueryRequests :
        \E out \in SurfaceRun(tables[r.self], r) :
            /\ SurfaceInvoke(r, out)
            /\ UNCHANGED recorded

(* get_weather_data: UK23WeatherDataTool, on the module global weather_data *)

UkColumns ==
    <<"name", "datetime", "tempmax", "tempmin", "humidity", "precip", "windspeed",
      "conditions">>

UkRow(n, d, hi, lo, h, p, w, c) ==
    [col \in ToSet(UkColumns) |->
        CASE col = "name" -> n [] col = "datetime" -> d [] col = "tempmax" -> hi
          [] col = "tempmin" -> lo [] col = "humidity" -> h [] col = "precip" -> p
          [] col = "windspeed" -> w [] col = "conditions" -> c]

\* weather_data as loaded by pd.read_csv
UkWeatherTable ==
    [columns |-> UkColumns,
     rows |-> << UkRow("United Kingdom", DateText(1), 9, 3, 80, 2, 20, "Rain"),
                 UkRow("United Kingdom", DateText(2), 11, 4, 75, 0, 14, "Clear"),
                 UkRow("United Kingdom", DateText(3), 8, 1, 82, 5, 25, "Rain") >>]

\* the orders in which a Python set can be listed
Orderings(S) ==
    {q \in [1..Cardinality(S) -> S] : \A i, j \in DOMAIN q : i # j => q[i] # q[j]}

\* to_json(orient="records", date_format="iso"): the records, timestamps as ISO text
UkToJson(df) ==
    [shape |-> "json records", columns |-> df.columns,
     records |-> [i \in DOMAIN df.rows |->
                     [df.rows[i] EXCEPT !["datetime"] = [k |-> "iso", v |-> @.v]]]]

UkDefaultAttributes == <<"tempmax", "tempmin", "humidity", "precip", "windspeed", "conditions">>

\* run_impl: the results the call can return
UkRunImpl(weather_data, r) ==
    LET of_country == IF Lower(<<r.Country>>) # <<"all">>
                      THEN [weather_data EXCEPT !.rows =
                               SelectSeq(@, LAMBDA row : row["name"] = r.Country)]
                      ELSE weather_data
        converted == [of_country EXCEPT !.rows =
                         [i \in DOMAIN @ |-> [@[i] EXCEPT !["datetime"] = Timestamp(@.v)]]]
        in_range == [converted EXCEPT !.rows =
                        SelectSeq(@, LAMBDA row : /\ row["datetime"].v >= r.StartDate
                                                  /\ row["datetime"].v <= r.EndDate)]
        requested_attributes == ToSet(r.Attributes.v)
        invalid_attributes == requested_attributes \ ToSet(weather_data.columns)
    IN IF in_range.rows = <<>>
       THEN {[shape |-> "dict{message}",
              message |-> Msg("No data available for the specified filters.", <<>>)]}
       ELSE IF Truthy(r.Attributes)
       THEN IF invalid_attributes # {}
            THEN {[shape |-> "dict{error}",
                   error |-> Msg("Invalid attributes requested: ", q)] :
                     q \in Orderings(invalid_attributes)}
            ELSE {UkToJson(Project(in_range, <<"datetime", "name">> \o q)) :
                     q \in Orderings(requested_attributes)}
       ELSE {UkToJson(Project(in_range, <<"datetime", "name">> \o UkDefaultAttributes))}

UkRequests ==
    { [Country |-> c, StartDate |-> a, EndDate |-> 3, Attributes |-> at] :
        c \in {"All", "United Kingdom", "France"}, a \in {1, 3, 4},
        at \in {None, PyList(<<"tempmax", "precip">>), PyList(<<"tempmax", "snow">>)} }

\* the tables of the facades that answer from a stored table
StoreTables ==
    StateDatasets @@ [t \in {"surface.data", "surface.empty", "uk23.weather_data"} |->
                         CASE t = "surface.data" -> SurfaceTable
                           [] t = "surface.empty" -> EmptyFrame
                           [] t = "uk23.weather_data" -> UkWeatherTable]

-----------------------------------------------------------------------------
(* The facades on the module global data that answer {"status", "data"}:    *)
(* get_deforestation_data, get_energy_mix_data, get_global_carbon_emissions, *)
(* get_emission_monitoring_data, get_surface_water_data                      *)

\* a row with the cells vals under the labels cols
RowOf(cols, vals) == [c \in ToSet(cols) |-> vals[CHOOSE i \in DOMAIN cols : cols[i] = c]]

StatusData(status, data) == [shape |-> "dict{status,data}", status |-> status, data |-> data]
StatusError(text, values) == StatusData("error", << Msg(text, values) >>)

\* the texts re.search finds in a cell with re.IGNORECASE, among the texts requests use
Occurring(cell) ==
    CASE cell = "Brazil" -> {"Brazil", "brazil", "bra"}
      [] cell = "India" -> {"India", "india", "ind"}
      [] cell = "Indonesia" -> {"Indonesia", "indonesia", "ind"}
      [] cell = "Tropical" -> {"Tropical", "tropical"}
      [] cell = "Boreal" -> {"Boreal", "boreal"}
      [] cell = "Solar" -> {"Solar", "solar"}
      [] cell = "Coal" -> {"Coal", "coal"}
      [] cell = "Transport" -> {"Transport", "transport"}
      [] cell = "Power" -> {"Power", "power"}
      [] cell = "CO2" -> {"CO2", "co2"}
      [] cell = "CH4" -> {"CH4", "ch4"}
      [] cell = "Amazon Basin" -> {"Amazon Basin", "amazon"}
      [] cell = "Lake Chad" -> {"Lake Chad", "lake"}
      [] cell = "Lake Victoria" -> {"Lake Victoria", "lake"}
      [] OTHER -> {cell}

\* a text that is no regular expression: re.error inside str.contains
InvalidPattern == "("

\* the state of a run between two steps: the frame so far, or the object already returned
Going(df) == [done |-> FALSE, df |-> df, val |-> None]
Gone(val) == [done |-> TRUE, df |-> EmptyFrame, val |-> val]

\* if arg: keep the rows whose col contains arg (case=False, na=False); none left: error
ContainsStep(s, col, arg, text) ==
    IF s.done \/ ~ Truthy(arg) THEN s
    ELSE IF arg.v = InvalidPattern
    THEN Gone(StatusError("missing ), unterminated subpattern at position 0", <<>>))
    ELSE LET kept == [s.df EXCEPT !.rows =
                         SelectSeq(@, LAMBDA row : arg.v \in Occurring(row[col]))]
         IN IF kept.rows = <<>> THEN Gone(StatusError(text, <<arg.v>>)) ELSE Going(kept)

\* if start_year and end_year: keep the rows of the years between them; none left: error
YearRangeStep(s, start_year, end_year) ==
    IF s.done \/ ~ (Truthy(start_year) /\ Truthy(end_year)) THEN s
    ELSE LET kept == [s.df EXCEPT !.rows =
                         SelectSeq(@, LAMBDA row : /\ row["Year"] >= start_year.v
                                                   /\ row["Year"] <= end_year.v)]
         IN IF kept.rows = <<>>
            THEN Gone(StatusError("No data available for the specified year range.", <<>>))
            ELSE Going(kept)

\* if year: keep the rows of the year; none left: error
YearStep(s, year) ==
    IF s.done \/ ~ Truthy(year) THEN s
    ELSE LET kept == [s.df EXCEPT !.rows = SelectSeq(@, LAMBDA row : row["Year"] = year.v)]
         IN IF kept.rows = <<>>
            THEN Gone(StatusError("No emission data found for the specified year: .", <<year>>))
            ELSE Going(kept)

\* result = filtered_data[cols].to_dict(orient='records'); if not result: error
RecordsOrError(s, cols) ==
    IF s.done THEN s.val
    ELSE LET records == ToRecords(Project(s.df, cols))
         IN IF records = <<>>
            THEN StatusError("No results found based on the provided filters.", <<>>)
            ELSE StatusData("success", records)

DeforestationColumns == <<"Country", "Forest Type", "Year", "Deforestation Rate">>

DeforestationTable ==
    [columns |-> DeforestationColumns,
     rows |-> << RowOf(DeforestationColumns, <<"Brazil", "Tropical", 2019, 13>>),
                 RowOf(DeforestationColumns, <<"Indonesia", "Tropical", 2020, 9>>),
                 RowOf(DeforestationColumns, <<"India", "Boreal", 2021, 2>>) >>]

DeforestationRunImpl(data, r) ==
    RecordsOrError(
        YearRangeStep(
            ContainsStep(
                ContainsStep(Going(data), "Country", r.country,
                             "No deforestation data found for the specified country: ."),
                "Forest Type", r.forest_type,
                "No data available for the specified forest type: ."),
            r.start_year, r.end_year),
        DeforestationColumns)

EnergyMixColumns == <<"Country", "Year", "Energy Source", "Percentage">>

EnergyMixTable ==
    [columns |-> EnergyMixColumns,
     rows |-> << RowOf(EnergyMixColumns, <<"Brazil", 2019, "Solar", 4>>),
                 RowOf(EnergyMixColumns, <<"India", 2020, "Coal", 55>>),
                 RowOf(EnergyMixColumns, <<"India", 2021, "Solar", 6>>) >>]

EnergyMixRunImpl(data, r) ==
    RecordsOrError(
        YearRangeStep(
            ContainsStep(
                ContainsStep(Going(data), "Country", r.country,
                             "No energy mix data found for the specified country: ."),
                "Energy Source", r.energy_source,
                "No data available for the specified energy source: ."),
            r.start_year, r.end_year),
        EnergyMixColumns)

GlobalEmissionColumns == <<"Country", "Sector", "Year", "Emission Type", "Emissions">>

GlobalCarbonTable ==
    [columns |-> GlobalEmissionColumns,
     rows |-> << RowOf(GlobalEmissionColumns, <<"Brazil", "Transport", 2019, "CO2", 40>>),
                 RowOf(GlobalEmissionColumns, <<"India", "Power", 2020, "CO2", 90>>),
                 RowOf(GlobalEmissionColumns, <<"India", "Transport", 2021, "CH4", 7>>) >>]

GlobalCarbonRunImpl(data, r) ==
    RecordsOrError(
        ContainsStep(
            YearStep(
                ContainsStep(
                    ContainsStep(Going(data), "Country", r.country,
                                 "No emission data found for the specified country: ."),
                    "Sector", r.sector,
                    "No emission data found for the specified sector: ."),
                r.year),
            "Emission Type", r.emission_type,
            "No data found for the specified emission type: ."),
        GlobalEmissionColumns)

EmissionMonitoringTable ==
    [columns |-> GlobalEmissionColumns,
     rows |-> << RowOf(GlobalEmissionColumns, <<"Indonesia", "Power", 2019, "CH4", 5>>),
                 RowOf(GlobalEmissionColumns, <<"India", "Power", 2020, "CO2", 88>>),
                 RowOf(GlobalEmissionColumns, <<"Brazil", "Transport", 2021, "CO2", 41>>) >>]

EmissionMonitoringRunImpl(data, r) ==
    RecordsOrError(
        YearRangeStep(
            ContainsStep(
                ContainsStep(
                    ContainsStep(Going(data), "Country", r.country,
                                 "No emission data found for the specified country: ."),
                    "Sector", r.sector,
                    "No emission data found for the specified sector: ."),
                "Emission Type", r.emission_type,
                "No data found for the specified emission type: ."),
            r.start_year, r.end_year),
        GlobalEmissionColumns)

SurfaceWaterColumns == <<"Region", "1999", "2000", "2001", "Seasonality">>

\* Global_Surface_Water.csv: one row per region, a column per year, NaN where not measured
SurfaceWaterTable ==
    [columns |-> SurfaceWaterColumns,
     rows |-> << RowOf(SurfaceWaterColumns, <<"Amazon Basin", 10, 12, 15, 3>>),
                 RowOf(SurfaceWaterColumns, <<"Lake Chad", 8, NaN, 5, NaN>>),
                 RowOf(SurfaceWaterColumns, <<"Lake Victoria", NaN, 20, 21, 2>>) >>]

\* int(col) for the year columns, 0 for the other columns
ColumnYear(col) ==
    CASE col = "1999" -> 1999 [] col = "2000" -> 2000 [] col = "2001" -> 2001 [] OTHER -> 0

\* the columns after 'Region'
ValueColumns(df) == SelectSeq(df.columns, LAMBDA c : c # "Region")

\* filtered_data.iloc[:, 1:].diff(axis=1).sum(axis=1) of one row: the differences of
\* neighbouring columns, NaN where a neighbour is NaN, summed with NaN skipped
RowChange(df, row) ==
    LET cols == ValueColumns(df)
        diffs == [i \in 1..(Len(cols) - 1) |->
                    IF row[cols[i]] = NaN \/ row[cols[i + 1]] = NaN THEN 0
                    ELSE row[cols[i + 1]] - row[cols[i]]]
    IN SeqSum(diffs)

\* lines 128-131 without the test for an empty frame
SurfaceWaterAnswerUnchecked(df) == StatusData("success", ToRecords(df))

\* lines 128-131: the error for an empty frame, else the records
SurfaceWaterAnswer(df) ==
    IF df.rows = <<>>
    THEN StatusError("No data available for the specified region or criteria.", <<>>)
    ELSE StatusData("success", ToRecords(df))

\* lines 117-131: the analysis chosen by analysis_type and the answer
SurfaceWaterAnalysis(df, analysis_type) ==
    IF analysis_type = "change"
    THEN SurfaceWaterAnswer(
            [columns |-> <<"Region", "Change">>,
             rows |-> [i \in DOMAIN df.rows |->
                          [c \in {"Region", "Change"} |->
                              IF c = "Region" THEN df.rows[i]["Region"]
                              ELSE RowChange(df, df.rows[i])]]])
    ELSE IF analysis_type = "seasonality"
    THEN IF InSeq("Seasonality", df.columns)
         THEN SurfaceWaterAnswer(DropNa(Project(df, <<"Region", "Seasonality">>),
                                        <<"Seasonality">>))
         ELSE StatusError("Seasonality data is not available for the selected region.", <<>>)
    ELSE SurfaceWaterAnswer(DropNa(df, ValueColumns(df)))

SurfaceWaterRunImpl(data, r) ==
    LET s == ContainsStep(Going(data), "Region", r.region,
                          "No data found for the specified region: .")
        year_columns == SelectSeq(s.df.columns,
                                  LAMBDA c : /\ ColumnYear(c) >= r.start_year.v
                                             /\ ColumnYear(c) <= r.end_year.v)
    IN IF s.done THEN s.val
       ELSE IF Truthy(r.start_year) /\ Truthy(r.end_year)
       THEN IF year_columns # <<>>
            THEN SurfaceWaterAnalysis(DropNa(Project(s.df, <<"Region">> \o year_columns),
                                             year_columns),
                                      r.analysis_type)
            ELSE StatusError("No data available for the specified year range.", <<>>)
       ELSE SurfaceWaterAnalysis(s.df, r.analysis_type)

\* the country, region, sector, source and type texts of the requests
Patterns(texts) == {None, PyStr("")} \cup {PyStr(t) : t \in texts}

YearArguments == {None, PyInt(0), PyInt(2019), PyInt(2020), PyInt(2030)}

DeforestationRequests ==
    { [country |-> c, forest_type |-> f, start_year |-> s, end_year |-> e] :
        c \in Patterns({"ind", "brazil", "Atlantis", InvalidPattern}),
        f \in Patterns({"tropical", "Boreal"}), s \in YearArguments, e \in YearArguments }

EnergyMixRequests ==
    { [country |-> c, energy_source |-> f, start_year |-> s, end_year |-> e] :
        c \in Patterns({"india", "Atlantis"}),
        f \in Patterns({"solar", "Coal", InvalidPattern}), s \in YearArguments,
        e \in YearArguments }

GlobalCarbonRequests ==
    { [country |-> c, sector |-> k, year |-> y, emission_type |-> t] :
        c \in Patterns({"india", "bra"}), k \in Patterns({"transport", "Mining"}),
        y \in YearArguments, t \in Patterns({"co2", "CH4", InvalidPattern}) }

EmissionMonitoringRequests ==
    { [country |-> c, sector |-> k, emission_type |-> t, start_year |-> s, end_year |-> e] :
        c \in Patterns({"ind"}), k \in Patterns({"power", InvalidPattern}),
        t \in Patterns({"co2", "N2O"}), s \in {None, PyInt(2020)}, e \in YearArguments }

SurfaceWaterRequests ==
    { [region |-> g, start_year |-> s, end_year |-> e, analysis_type |-> a] :
        g \in Patterns({"lake", "Lake Chad", "amazon", "Nile", InvalidPattern}),
        s \in {None, PyInt(1999), PyInt(2000), PyInt(2005)},
        e \in {None, PyInt(1999), PyInt(2001), PyInt(2010)},
        a \in {"occurrence", "change", "seasonality", "trend"} }

DeforestationCall ==
    /\ \E r \in DeforestationRequests :
          Invoke("get_deforestation_data", r,
                 Ok(DeforestationRunImpl(tables["deforestation.data"], r)))
    /\ UNCHANGED <<tables, endpoint, recorded>>

EnergyMixCall ==
    /\ \E r \in EnergyMixRequests :
          Invoke("get_energy_mix_data", r, Ok(EnergyMixRunImpl(tables["energy_mix.data"], r)))
    /\ UNCHANGED <<tables, endpoint, recorded>>

GlobalCarbonCall ==
    /\ \E r \in GlobalCarbonRequests :
          Invoke("get_global_carbon_emissions", r,
                 Ok(GlobalCarbonRunImpl(tables["global_carbon.data"], r)))
    /\ UNCHANGED <<tables, endpoint, recorded>>

EmissionMonitoringCall ==
    /\ \E r \in EmissionMonitoringRequests :
          Invoke("get_emission_monitoring_data", r,
                 Ok(EmissionMonitoringRunImpl(tables["emission_monitoring.data"], r)))
    /\ UNCHANGED <<tables, endpoint, recorded>>

SurfaceWaterCall ==
    /\ \E r \in SurfaceWaterRequests :
          Invoke("get_surface_water_data", r,
                 Ok(SurfaceWaterRunImpl(tables["surface_water.data"], r)))
    /\ UNCHANGED <<tables, endpoint, recorded>>

\* the module global data of the five facades
StatusDataTables ==
    [t \in {"deforestation.data", "energy_mix.data", "global_carbon.data",
            "emission_monitoring.data", "surface_water.data"} |->
        CASE t = "deforestation.data" -> DeforestationTable
          [] t = "energy_mix.data" -> EnergyMixTable
          [] t = "global_carbon.data" -> GlobalCarbonTable
          [] t = "emission_monitoring.data" -> EmissionMonitoringTable
          [] t = "surface_water.data" -> SurfaceWaterTable]

(* app.py: the /ask endpoint.  A text is the sequence of its words; an LLM   *)
(* reply is any text of a small set.                                        *)

\* requests of the endpoint the model lets through
MaxAsk == 3

\* {}: the empty dict
EmptyDict == <<>>

\* d.get(key)
Get(d, key) == IF key \in DOMAIN d THEN d[key] ELSE None

\* text.strip(): leading and trailing whitespace removed
RECURSIVE Strip(_)
Strip(text) ==
    IF text = <<>> THEN text
    ELSE IF Head(text) = " " THEN Strip(Tail(text))
    ELSE IF text[Len(text)] = " " THEN Strip(SubSeq(text, 1, Len(text) - 1))
    ELSE text

\* text.find(word): the first position of the word, counted from 0, or -1
Find(text, word) ==
    IF \E i \in DOMAIN text : text[i] = word
    THEN (CHOOSE i \in DOMAIN text : text[i] = word /\ \A j \in 1..(i - 1) : text[j] # word) - 1
    ELSE 0 - 1

\* a word of a reply, and a JSON document written in a reply
Word(w) == [k |-> "word", v |-> w]
Json(doc) == [k |-> "json", v |-> doc]

ToolCallStart == Word("<tool_call>")
ToolCallEnd == Word("</tool_call>")

\* json.loads(text): the document when the text is one well-formed document
JsonLoads(text) ==
    IF Len(text) = 1 /\ text[1].k = "json" THEN Ok(text[1].v) ELSE Raise("JSONDecodeError")

\* extract_function_and_parameters(response): None unless both tags are found and the
\* text between them is a JSON object; any exception is swallowed
ExtractFunctionAndParameters(response) ==
    LET tool_call_start == Find(response, ToolCallStart)
        tool_call_end == Find(response, ToolCallEnd)
        \* response[tool_call_start + len("<tool_call>"):tool_call_end]
        tool_call_json == SubSeq(response, tool_call_start + 2, tool_call_end)
        tool_call_data == JsonLoads(tool_call_json)
    IN IF tool_call_start = 0 - 1 \/ tool_call_end = 0 - 1 THEN None
       ELSE IF ~ tool_call_data.ok THEN None
       ELSE IF tool_call_data.val.k # "dict" THEN None      \* list.get: AttributeError
       ELSE [k |-> "dict",
             function_name |-> Get(tool_call_data.val.v, "name"),
             arguments |-> Get(tool_call_data.val.v, "arguments")]

\* a JSON object
JsonObject(d) == [k |-> "dict", v |-> d]

\* memory_store.get(session_id, [])
GetMemory(store, session_id) == IF session_id \in DOMAIN store THEN store[session_id] ELSE <<>>

\* update_memory keeping the newest entry only
UpdateMemoryOverwrite(store, session_id, user_input, model_response) ==
    (session_id :> << [user |-> user_input, model |-> model_response] >>) @@
    [s \in DOMAIN store \ {session_id} |-> store[s]]

\* update_memory(session_id, user_input, model_response)
UpdateMemory(store, session_id, user_input, model_response) ==
    LET entry == [user |-> user_input, model |-> model_response]
    IN IF session_id \in DOMAIN store
       THEN [store EXCEPT ![session_id] = Append(@, entry)]
       ELSE (session_id :> <<entry>>) @@ store

\* "\n".join([f"User: {entry['user']}\nModel: {entry['model']}" for entry in memory])
RECURSIVE MemoryContext(_)
MemoryContext(memory) ==
    IF memory = <<>> THEN <<>>
    ELSE <<"User:", memory[1].user, "Model:", memory[1].model>> \o MemoryContext(Tail(memory))

\* the words after which the clarification counts as failed
DontUnderstand == <<"I", "don't", "understand">>

\* the body returned when the clarification failed
ClarifyFailed ==
    <<"I'm", "not", "sure", "I", "understood", "your", "question.", "Could", "you", "clarify",
      "or", "provide", "more", "detail?">>

\* JSONResponse(content={"response": text})
JSONResponse(text) == [status |-> 200, body |-> [k |-> "dict", response |-> [k |-> "str", v |-> text]]]

\* the handler returned None: the framework serialises it as null
NullResponse == [status |-> 200, body |-> None]

\* the handler raised: the framework answers 500 with a plain-text body
ServerError(exc) == [status |-> 500, body |-> [k |-> "text", v |-> exc]]

\* no call of ask_question is in flight
AskIdle ==
    [pc |-> "idle", client |-> "none", question |-> <<>>, clarified_question |-> <<>>,
     memory_context |-> <<>>, function_and_parameters |-> None, response_data |-> None,
     steps |-> <<>>, reply |-> None]

\* every process-wide table as loaded
LoadedTables ==
    CilTables @@ NinjaTables @@ FacadeTables @@ StoreTables @@ StatusDataTables

\* the caller has the result (or the exception); the next call can start
Return ==
    /\ pc \in {"done", "raised"}
    /\ pc' = "idle"
    /\ tool' = "none"
    /\ req' = None
    /\ filtered_data' = EmptyFrame
    /\ messages' = <<>>
    /\ stages' = <<>>
    /\ presort' = EmptyFrame
    /\ sorted_data' = EmptyFrame
    /\ result' = NoResult
    /\ surface_years' = <<>>
    /\ UNCHANGED <<tables, endpoint, shapes, recorded>>

Init ==
    /\ tool = "none"
    /\ req = None
    /\ pc = "idle"
    /\ filtered_data = EmptyFrame
    /\ messages = <<>>
    /\ stages = <<>>
    /\ presort = EmptyFrame
    /\ sorted_data = EmptyFrame
    /\ result = NoResult
    /\ tables = LoadedTables
    /\ shapes = {}
    /\ recorded = NoResult
    /\ surface_years = <<>>
    /\ memory_store = EmptyDict
    /\ ask = AskIdle
    /\ answered = <<>>

Next ==
    \/ CilStart \/ CilFilter \/ CilAggregate \/ CilSort \/ CilTruncate \/ CilAssemble
    \/ NinjaStart \/ NinjaFilter \/ NinjaMerge \/ NinjaAggregate \/ NinjaSort
    \/ NinjaTruncate \/ NinjaAssemble
    \/ Return

Spec == Init /\ [][Next]_vars

\* the single-step facades, called in any order
NextFacade ==
    \/ EmissionCall \/ EnergyCall \/ SectorCall \/ RatingCall \/ OilCall \/ CarbonCall
    \/ Return

SpecFacade == Init /\ [][NextFacade]_vars

\* the facades that answer from a stored table, called in any order
NextStore == WeatherCall \/ SurfaceCall \/ Return

SpecStore == Init /\ [][NextStore]_vars

\* the two facades over the greenhouse emissions data set, called in any order
NextEmission == EmissionCall \/ AverageCall \/ Return

SpecEmission == Init /\ [][NextEmission]_vars

\* get_surface_temperature_change queried with any arguments
NextSurface == SurfaceQuery \/ Return

SpecSurface == Init /\ [][NextSurface]_vars

\* the two facades that report the requested values a filter does not find
NextFilters ==
    \/ CilStart \/ CilFilter \/ CilAggregate \/ CilSort \/ CilTruncate \/ CilAssemble
    \/ CarbonCall
    \/ Return

SpecFilters == Init /\ [][NextFilters]_vars

\* the facades that answer {"status", "data"}, called in any order
NextStatusData ==
    \/ SurfaceQuery \/ DeforestationCall \/ EnergyMixCall \/ GlobalCarbonCall
    \/ EmissionMonitoringCall \/ SurfaceWaterCall
    \/ Return

SpecStatusData == Init /\ [][NextStatusData]_vars

-----------------------------------------------------------------------------
(* UserQueryHandler of app.py: the orchestration layer that hands a function *)
(* name and its parameters to the facade constructed for it in __init__     *)

\* the answer of the else branch of fetch_response_userquery
UnknownFunction ==
    [shape |-> "dict{status,data}", status |-> "error",
     data |-> << Msg("Unknown function requested by the model.", <<>>) >>]

\* what one handler call did: the facade whose run_impl it called ("none" when it called
\* no facade), the outcome of the call, and the tables the call leaves
Dispatched(name, outcome, tbl) == [tool |-> name, outcome |-> outcome, tables |-> tbl]

\* fetch_response_userquery(function_name, parameters): the if/elif chain, each branch
\* returning await self.<tool>.run_impl(**parameters)
FetchResponseUserquery(function_name, parameters, tbl) ==
    IF function_name = "get_emission_data"
    THEN {Dispatched("get_emission_data",
                     EmissionRunImpl(tbl["emissions_data"], parameters), tbl)}
    ELSE IF function_name = "get_average_emission_data"
    THEN {Dispatched("get_average_emission_data", Ok(v), tbl) :
             v \in AverageRunImpl(tbl["average.data"], parameters)}
    ELSE IF function_name = "get_surface_temperature_change"
    THEN {Dispatched("get_surface_temperature_change", Ok(v), tbl) :
             v \in SurfaceRunImpl(tbl["surface.data"], parameters)}
    ELSE IF function_name = "get_sector_emission_data"
    THEN {Dispatched("get_sector_emission_data",
                     SectorRunImpl(tbl["sector.emissions_data"], parameters), tbl)}
    ELSE IF function_name = "get_country_rating"
    THEN {Dispatched("get_country_rating",
                     RatingRunImpl(tbl["rating.emissions_data"], parameters), tbl)}
    ELSE IF function_name = "get_energy_emission_data"
    THEN {Dispatched("get_energy_emission_data",
                     EnergyRunImpl(tbl["energy.data"], parameters), tbl)}
    ELSE IF function_name = "get_carbon_emission_data"
    THEN {Dispatched("get_carbon_emission_data",
                     CarbonRunImpl(tbl["carbon.data"], parameters), tbl)}
    ELSE IF function_name = "get_average_fuel_emission_data"
    THEN {Dispatched("get_average_fuel_emission_data", Ok(v), tbl) :
             v \in FuelRunImpl(tbl["fuel_data"], parameters)}
    ELSE IF function_name = "get_weather_data"
    THEN {Dispatched("get_weather_data", Ok(v), tbl) :
             v \in UkRunImpl(tbl["uk23.weather_data"], parameters)}
    ELSE IF function_name = "get_us_state_weather_data"
    THEN LET out == WeatherRunImpl(tbl, parameters)
         IN {Dispatched("get_us_state_weather_data", Ok(out.val), out.datasets)}
    ELSE {Dispatched("none", Ok(UnknownFunction), tbl)}

\* the names get_name() returns in the facade classes
FacadeNames ==
    {"get_emission_data", "get_average_emission_data", "get_surface_temperature_change",
     "get_sector_emission_data", "get_country_rating", "get_energy_emission_data",
     "get_carbon_emission_data", "get_average_fuel_emission_data", "get_weather_data",
     "get_us_state_weather_data", "get_ren_ninja", "get_cil_gobal_tas", "get_oil_info"}

\* the function names the language model is taken to ask for
HandlerFunctionNames == FacadeNames \cup {"get_unknown", ""}

\* the parameters each function name is asked with
HandlerParameters(function_name) ==
    CASE function_name = "get_emission_data" -> EmissionRequests
      [] function_name = "get_average_emission_data" ->
            {r \in AverageRequests : r.num_years = 1 /\ Len(r.trend_type) = 1}
      [] function_name = "get_surface_temperature_change" ->
            {r \in SurfaceModeRequests : r.country # None}
      [] function_name = "get_sector_emission_data" -> SectorRequests
      [] function_name = "get_country_rating" -> RatingRequests
      [] function_name = "get_energy_emission_data" -> EnergyRequests
      [] function_name = "get_carbon_emission_data" -> CarbonRequests
      [] function_name = "get_average_fuel_emission_data" -> FuelRequests
      [] function_name = "get_weather_data" -> UkRequests
      [] function_name = "get_us_state_weather_data" -> WeatherRequests
      [] function_name = "get_ren_ninja" -> NinjaLevelRequests
      [] function_name = "get_cil_gobal_tas" -> CilFilterRequests
      [] function_name = "get_oil_info" -> OilRequests
      [] OTHER -> {[query |-> PyStr("climate")]}

\* one call of fetch_response_userquery, to its return
HandleQuery ==
    \E function_name \in HandlerFunctionNames :
        \E parameters \in HandlerParameters(function_name) :
            \E d \in FetchResponseUserquery(function_name, parameters, tables) :
                /\ pc = "idle"
                /\ pc' = "done"
                /\ tool' = d.tool
                /\ req' = [function_name |-> function_name, parameters |-> parameters]
                /\ result' = IF d.outcome.ok THEN Returned(d.outcome.val)
                             ELSE Raised(d.outcome.exc)
                /\ tables' = d.tables
                /\ UNCHANGED <<filtered_data, messages, stages, presort, sorted_data, shapes,
                               recorded, surface_years, endpoint>>

\* the handler called with any function name
NextHandler == HandleQuery \/ Return

SpecHandler == Init /\ [][NextHandler]_vars

-----------------------------------------------------------------------------
(* app.py: ask_question, the handler of POST /ask.  The handler never       *)
(* suspends (the LLM client is called synchronously and no facade awaits), *)
(* so one call runs to its end before the next starts.  The client that    *)
(* sent a request is not known to the handler; the model keeps it to state *)
(* properties about clients.                                                *)

Clients == {"A", "B"}

Questions == { <<"emissions", "of", "kangaroo", "country">>, <<"hello">> }

\* replies of the clarification call
ClarifyReplies ==
    { <<" ", "emissions", "of", "Australia", " ">>,
      <<"I", "don't", "understand", "the", "question">>,
      <<"Sorry,", "I", "don't", "understand", " ">> }

\* the tool calls the decision call is seen to write
AskToolCalls ==
    { \* a call the facade answers
      [name |-> PyStr("get_emission_data"),
       arguments |-> [country |-> PyStr("Australia"), year |-> PyInt(2020),
                      emission_type |-> PyStr("sfc_emissions")]],
      \* a call the facade raises on
      [name |-> PyStr("get_emission_data"),
       arguments |-> [country |-> PyStr("Australia"), year |-> None, emission_type |-> None]],
      \* a name the handler has no branch for
      [name |-> PyStr("get_ren_ninja"), arguments |-> [query |-> PyStr("climate")]],
      \* "arguments": {}
      [name |-> PyStr("get_emission_data"), arguments |-> EmptyDict],
      \* "arguments": null
      [name |-> PyStr("get_emission_data"), arguments |-> None],
      \* no "arguments" key
      [name |-> PyStr("get_emission_data")],
      \* "name": ""
      [name |-> PyStr(""), arguments |-> [query |-> PyStr("climate")]],
      \* no "name" key
      [arguments |-> [query |-> PyStr("climate")]] }

\* replies of the decision call
DecisionReplies ==
    { <<ToolCallStart, Json(JsonObject(c)), ToolCallEnd>> : c \in AskToolCalls }
    \cup { <<Word("Hello!"), ToolCallStart, Json(JsonObject(c)), ToolCallEnd, Word("Bye")>> :
              c \in {c \in AskToolCalls : DOMAIN c = {"name"}} }
    \cup { <<Word("Hello"), Word("there")>>,
           <<ToolCallStart, Word("not"), Word("json"), ToolCallEnd>>,
           <<ToolCallStart, Json(PyList(<<>>)), ToolCallEnd>>,
           <<ToolCallStart, ToolCallEnd>>,
           <<ToolCallEnd, Json(JsonObject([name |-> PyStr("get_emission_data")])), ToolCallStart>>,
           <<ToolCallStart, Json(JsonObject([name |-> PyStr("get_emission_data")]))>> }

\* replies of the summarising call and of the direct-answer call
SummaryReplies == { <<"Australia", "emitted", "90">> }
DirectReplies == { <<"Hi,", "how", "can", "I", "help?">> }

\* session_id = 1
SessionId == 1

\* the call ends: the reply goes to the client
Ended(a, step, reply) == [a EXCEPT !.pc = "ended", !.steps = Append(@, step), !.reply = reply]

\* lines 425-458: the request arrives, the question is clarified; a clarification that
\* says "I don't understand" ends the call
AskClarify ==
    /\ pc = "idle"
    /\ ask.pc \in {"idle", "ended"}
    /\ Len(answered) < MaxAsk
    /\ \E client \in Clients, question \in Questions, clarification \in ClarifyReplies :
          LET clarified_question == Strip(clarification)
              a == [AskIdle EXCEPT !.client = client, !.question = question,
                                   !.clarified_question = clarified_question]
          IN ask' = IF Contains(clarified_question, DontUnderstand)
                    THEN Ended(a, "clarify", JSONResponse(ClarifyFailed))
                    ELSE [a EXCEPT !.pc = "clarified", !.steps = <<"clarify">>]
    /\ UNCHANGED <<tool, req, pc, filtered_data, messages, stages, presort, sorted_data, result,
                   tables, shapes, recorded, surface_years, memory_store, answered>>

\* lines 460-515: the memory of the session goes into the decision prompt, the decision
\* call answers, the tool call is extracted from the answer
AskSelect ==
    /\ ask.pc = "clarified"
    /\ \E llama_response \in DecisionReplies :
          ask' = [ask EXCEPT !.pc = "selected",
                             !.steps = Append(@, "select"),
                             !.memory_context = MemoryContext(GetMemory(memory_store, SessionId)),
                             !.function_and_parameters =
                                  ExtractFunctionAndParameters(llama_response)]
    /\ UNCHANGED <<tool, req, pc, filtered_data, messages, stages, presort, sorted_data, result,
                   tables, shapes, recorded, surface_years, memory_store, answered>>

\* `if function_and_parameters:`
ToolCallExtracted(a) == a.function_and_parameters # None

\* `if function_name and parameters:`
ToolCallComplete(a) ==
    /\ Truthy(a.function_and_parameters.function_name)
    /\ a.function_and_parameters.arguments # None
    /\ a.function_and_parameters.arguments # EmptyDict

\* lines 517-527: the extracted call goes to fetch_response_userquery; what the facade
\* raises leaves the handler
AskInvoke ==
    /\ ask.pc = "selected"
    /\ ToolCallExtracted(ask)
    /\ ToolCallComplete(ask)
    /\ \E d \in FetchResponseUserquery(ask.function_and_parameters.function_name.v,
                                       ask.function_and_parameters.arguments, tables) :
          /\ ask' = IF d.outcome.ok
                    THEN [ask EXCEPT !.pc = "invoked", !.steps = Append(@, "invoke"),
                                     !.response_data = d.outcome.val]
                    ELSE Ended(ask, "invoke", ServerError(d.outcome.exc))
          /\ tables' = d.tables
    /\ UNCHANGED <<tool, req, pc, filtered_data, messages, stages, presort, sorted_data, result,
                   shapes, recorded, surface_years, memory_store, answered>>

\* lines 530-561: the summarising call words the data; the exchange is remembered and
\* the summary returned
AskSummarize ==
    /\ ask.pc = "invoked"
    /\ \E descriptive_response \in SummaryReplies :
          /\ memory_store' = UpdateMemory(memory_store, SessionId, ask.question,
                                          descriptive_response)
          /\ ask' = Ended(ask, "summarize", JSONResponse(descriptive_response))
          /\ answered' = Append(answered, [client |-> ask.client, question |-> ask.question,
                                           answer |-> descriptive_response])
    /\ UNCHANGED <<tool, req, pc, filtered_data, messages, stages, presort, sorted_data, result,
                   tables, shapes, recorded, surface_years>>

\* lines 564-576, the else of `if function_and_parameters:`: the model answers the
\* question directly; the exchange is remembered and the answer returned
AskAnswer ==
    /\ ask.pc = "selected"
    /\ ~ ToolCallExtracted(ask)
    /\ \E llama_response_general \in DirectReplies :
          /\ memory_store' = UpdateMemory(memory_store, SessionId, ask.question,
                                          llama_response_general)
          /\ ask' = Ended(ask, "answer", JSONResponse(llama_response_general))
          /\ answered' = Append(answered, [client |-> ask.client, question |-> ask.question,
                                           answer |-> llama_response_general])
    /\ UNCHANGED <<tool, req, pc, filtered_data, messages, stages, presort, sorted_data, result,
                   tables, shapes, recorded, surface_years>>

\* a tool call was extracted but `if function_name and parameters:` is false: no branch
\* is left, the handler runs off its end and returns None
AskFallThrough ==
    /\ ask.pc = "selected"
    /\ ToolCallExtracted(ask)
    /\ ~ ToolCallComplete(ask)
    /\ ask' = Ended(ask, "none", NullResponse)
    /\ UNCHANGED <<tool, req, pc, filtered_data, messages, stages, presort, sorted_data, result,
                   tables, shapes, recorded, surface_years, memory_store, answered>>

NextAsk == AskClarify \/ AskSelect \/ AskInvoke \/ AskSummarize \/ AskAnswer \/ AskFallThrough

SpecAsk == Init /\ [][NextAsk]_vars

-----------------------------------------------------------------------------
(* Properties of the staged pipelines get_cil_gobal_tas and get_ren_ninja   *)

Pipeline == tool \in {"get_cil_gobal_tas", "get_ren_ninja"}

\* the call in flight has returned a table that went through sort_data
ReturnedSorted == Pipeline /\ pc = "done" /\ InSeq("sort", stages)

\* the columns sort_data orders by
SortKeyColumns ==
    IF tool = "get_cil_gobal_tas" THEN SelectSeq(presort.columns, StartsWithP)
    ELSE <<"capacity_factor">>

\* the direction sort_data orders in
SortsAscending ==
    IF tool = "get_cil_gobal_tas" THEN req.sort # "descending" ELSE req.sort = "ascending"

\* the argument n as a number; 0 stands for "no truncation"
RequestedN ==
    IF tool = "get_cil_gobal_tas" THEN req.n ELSE IF Truthy(req.n) THEN req.n.v ELSE 0

IsOrdered(rows, by, ascending) ==
    \A i \in 1..(Len(rows) - 1) : ~ Precedes(rows[i + 1], rows[i], by, ascending)

Occurrences(x, s) == Cardinality({i \in DOMAIN s : s[i] = x})

IsPermutation(a, b) ==
    /\ Len(a) = Len(b)
    /\ \A i \in DOMAIN a : Occurrences(a[i], a) = Occurrences(a[i], b)

DistinctKeys(rows, by) ==
    \A i, j \in DOMAIN rows : i < j => (RowLess(rows[i], rows[j], by) \/ RowLess(rows[j], rows[i], by))

FirstRows(rows, k) == SubSeq(rows, 1, IF k = 0 \/ k > Len(rows) THEN Len(rows) ELSE k)
LastRows(rows, k) == SubSeq(rows, IF k = 0 \/ k > Len(rows) THEN 1 ELSE Len(rows) - k + 1, Len(rows))

StageRank(s) ==
    CASE s = "filter" -> 1 [] s = "merge" -> 2 [] s = "aggregate" -> 3
      [] s = "sort" -> 4 [] s = "truncate" -> 5 [] s = "assemble" -> 6

\* C3: every call of a facade ends by returning a structured result; no exception
\* propagates out of run_impl to the caller.
C3_NoExceptionEscapes == result.status # "raised"

\* C7: the stages of a pipeline call run in the order filter, merge, aggregate, sort,
\* truncate, assemble, none twice, a stage that is not requested is skipped, and every
\* call that ends has assembled its result.
C7_StagesInOrderToAssembled ==
    Pipeline =>
        /\ \A i \in 1..(Len(stages) - 1) : StageRank(stages[i]) < StageRank(stages[i + 1])
        /\ (InSeq("merge", stages) => tool = "get_ren_ninja" /\ Truthy(req.data_merge))
        /\ (InSeq("aggregate", stages) => Truthy(req.group_by) \/ Truthy(req.aggregate))
        /\ (InSeq("truncate", stages) => RequestedN # 0)
        /\ (pc \in {"done", "raised"} => stages # <<>> /\ stages[Len(stages)] = "assemble")

\* C8: a returned table holds the rows handed to sort_data, in sorted order, all of them
\* with n = 0 or n absent, and exactly the first min(k, number of rows) of them with
\* n = k > 0.
C8_TopN ==
    ReturnedSorted =>
        /\ IsPermutation(sorted_data.rows, presort.rows)
        /\ IsOrdered(sorted_data.rows, SortKeyColumns, SortsAscending)
        /\ result.value.data =
              PyList(ToRecords([sorted_data EXCEPT !.rows = FirstRows(@, RequestedN)]))

C8_Witness ==
    /\ ReturnedSorted
    /\ tool = "get_cil_gobal_tas"
    /\ RequestedN > 0
    /\ RequestedN < Len(sorted_data.rows)
    /\ Len(result.value.data.v) = RequestedN
    /\ ~ IsOrdered(presort.rows, SortKeyColumns, SortsAscending)

\* the rows sort_data returns for the same input in the opposite direction
\* (unique when no two rows have equal sort keys)
OppositeOrder == StableSort(presort.rows, SortKeyColumns, ~ SortsAscending)

ComparableDirections ==
    /\ ReturnedSorted
    /\ req.sort \in {"ascending", "descending"}
    /\ presort.columns # <<>>
    /\ DistinctKeys(presort.rows, SortKeyColumns)

\* C9 as stated: for the same filters and the same k, the rows returned with
\* sort="ascending", n=k are the reverse of the rows returned with sort="descending",
\* n=k (rows with equal sort keys excepted).
C9_ReverseOfOppositeTopK ==
    ComparableDirections =>
        result.value.data.v = Reverse(FirstRows(OppositeOrder, RequestedN))

\* C9 amended: when no two rows have equal sort keys, the rows returned with n=k in one
\* direction are the reverse of the LAST k rows of the full order in the opposite
\* direction; they are the reverse of the opposite direction's n=k result exactly when
\* k = 0 or k is at least the number of rows.
C9_ReverseOfOppositeTail ==
    ComparableDirections =>
        /\ result.value.data.v = Reverse(LastRows(OppositeOrder, RequestedN))
        /\ (result.value.data.v = Reverse(FirstRows(OppositeOrder, RequestedN)))
              <=> (RequestedN = 0 \/ RequestedN >= Len(presort.rows))

C9_Witness ==
    /\ ComparableDirections
    /\ tool = "get_ren_ninja"
    /\ req.sort = "ascending"
    /\ Len(presort.rows) >= 3
    /\ RequestedN = 2
    /\ result.value.data.v # Reverse(FirstRows(OppositeOrder, RequestedN))

\* the table aggregate_data receives in the call in flight
CilAggregateInput == CilFilterData(tables[CilSource(req.flag)], <<>>, req).df

\* C10: with a non-empty group_by, aggregate_data returns exactly one row per distinct
\* combination of group_by values of its input, whose groups partition the input rows,
\* and the rows carry only the group_by columns and the reduced percentile columns.
C10_OneRowPerGroup ==
    (/\ tool = "get_cil_gobal_tas"
     /\ Truthy(req.group_by)
     /\ \/ pc = "sort"
        \/ pc = "raised" /\ stages = <<"filter">>) =>
        /\ result.status # "raised"
        /\ filtered_data.columns = req.group_by.v \o SelectSeq(CilAggregateInput.columns, StartsWithP)
        /\ Len(filtered_data.rows) = Len(GroupKeys(CilAggregateInput, req.group_by.v))
        /\ \A i \in DOMAIN CilAggregateInput.rows :
              Cardinality({j \in DOMAIN filtered_data.rows :
                              \A c \in ToSet(req.group_by.v) :
                                  filtered_data.rows[j][c] = CilAggregateInput.rows[i][c]}) = 1

-----------------------------------------------------------------------------
(* Properties of the single-step facades                                    *)

\* the optional filter arguments of a facade for which "all" is documented
AllFields(t) ==
    CASE t = "get_emission_data" -> {"year", "emission_type"}
      [] t = "get_energy_emission_data" -> {"Year", "Series"}
      [] t = "get_sector_emission_data" -> {"Sector", "Year", "Description"}
      [] t = "get_country_rating" -> {"Component"}
      [] OTHER -> {}

\* what the facade t does with the request r on the current tables
RunImplOf(t, r) ==
    CASE t = "get_emission_data" -> EmissionRunImpl(tables["emissions_data"], r)
      [] t = "get_energy_emission_data" -> EnergyRunImpl(tables["energy.data"], r)
      [] t = "get_sector_emission_data" -> SectorRunImpl(tables["sector.emissions_data"], r)
      [] t = "get_country_rating" -> RatingRunImpl(tables["rating.emissions_data"], r)
      [] t = "get_oil_info" -> OilRunImpl(tables["oil.data"], r)

\* the set of rows a returned value carries
ValueRows(v) ==
    CASE v.shape = "str" -> ToSet(v.json)
      [] v.shape \in {"dict{message,data}", "dict{countries,years,emission_types,data}"} ->
            ToSet(v.data.json)
      [] v.shape = "dict{status,result}" -> ToSet(v.result)
      [] OTHER -> {}

OutcomeRows(o) ==
    IF o.ok THEN [returned |-> TRUE, rows |-> ValueRows(o.val)]
    ELSE [returned |-> FALSE, rows |-> {}]

ResultRows ==
    IF result.status = "returned" THEN [returned |-> TRUE, rows |-> ValueRows(result.value)]
    ELSE [returned |-> FALSE, rows |-> {}]

\* the sequence s without its i-th element
Without(s, i) == SubSeq(s, 1, i - 1) \o SubSeq(s, i + 1, Len(s))

\* C1: for every facade that accepts "all" and every filter field F, the request with
\* F = "all" returns the same set of rows as the same request with F omitted.
C1_AllSameAsOmitted ==
    pc = "done" =>
        /\ \A f \in AllFields(tool) :
              req[f] = All => ResultRows = OutcomeRows(RunImplOf(tool, [req EXCEPT ![f] = None]))
        /\ tool = "get_oil_info" =>
              \A i \in DOMAIN req.filters :
                  req.filters[i][2] = All =>
                      ResultRows = OutcomeRows(RunImplOf(tool, [filters |-> Without(req.filters, i)]))

\* the requested values of the list field f that the loaded column lacks
CarbonAbsent(f) ==
    LET column == CASE f = "countries" -> Column(tables["carbon.data"], "country")
                    [] f = "sectors" -> Column(tables["carbon.data"], "sector")
                    [] f = "dates" -> Column(tables["carbon.data"], "date")
                    [] f = "years" -> [i \in DOMAIN tables["carbon.data"].rows |->
                                          tables["carbon.data"].rows[i]["date"][3]]
    IN IF Truthy(req[f]) THEN SelectSeq(req[f].v, LAMBDA v : ~ InSeq(v, column)) ELSE <<>>

\* C2: in a message-producing facade every requested value that its column lacks is
\* named in an "isn't available" message and contributes no row, and when no requested
\* value of a field is present the data is empty and the message is still returned
\* (stated for get_carbon_emission_data and its fields countries, sectors, years, dates).
C2_AbsentValuesReported ==
    (pc = "done" /\ tool = "get_carbon_emission_data") =>
        \A f \in {"countries", "sectors", "years", "dates"} :
            /\ \A i \in DOMAIN CarbonAbsent(f) :
                  \E j \in DOMAIN result.value.messages :
                      InSeq(CarbonAbsent(f)[i], result.value.messages[j].values)
            /\ (Truthy(req[f]) /\ CarbonAbsent(f) = req[f].v) => result.value.data = <<>>
            /\ f = "countries" =>
                  \A i \in DOMAIN CarbonAbsent(f) :
                      \A k \in DOMAIN result.value.data :
                          result.value.data[k]["Country"] # CarbonAbsent(f)[i]

\* C6: every result a facade returns has the same shape (the same Python type and, for
\* a dict, the same keys), whatever the arguments and whatever the outcome.
C6_OneShapePerFacade ==
    \A t \in ShapeTracked : Cardinality({p \in shapes : p[1] = t}) <= 1

-----------------------------------------------------------------------------
(* Properties of the facades that answer from a stored table                *)

\* C4: no invocation, whatever its outcome, changes a process-wide source table: every
\* table keeps the rows, columns and cell values it was loaded with.
C4_TablesAsLoaded == tables = LoadedTables

\* the call that has just ended repeats the recorded call
RepeatsRecorded ==
    /\ pc = "done"
    /\ recorded # NoResult
    /\ recorded.tool = tool
    /\ recorded.req = req

\* C5: a request made again, after any calls in between, gets the result its earlier
\* call got: the same rows in the same order, the same values, the same messages.
C5_SameResultAgain == RepeatsRecorded => result = recorded.result

C5_Witness ==
    /\ RepeatsRecorded
    /\ recorded.again
    /\ tool = "get_us_state_weather_data"
    /\ req.State = "Alabama"
    /\ result.value.shape = "dict{status,data}"
    /\ tables["state_datasets.Texas"] # LoadedTables["state_datasets.Texas"]

-----------------------------------------------------------------------------
(* Properties of get_surface_temperature_change                             *)

SurfaceDone == pc = "done" /\ tool = "get_surface_temperature_change"

SurfaceModes == {"compare", "threshold", "top_n", "default"}

\* the query modes the call has executed, in order
ModesExecuted == SelectSeq(stages, LAMBDA step : step \in SurfaceModes)

\* the rows of the instance's table that the country argument keeps
CountryRows ==
    IF Truthy(req.country)
    THEN SelectSeq(tables[req.self].rows,
                   LAMBDA row : InSeq(row["Country"], SplitCountries(req.country.v)))
    ELSE tables[req.self].rows

\* the call got past the three error checks that precede the query modes
PastErrorChecks ==
    /\ SurfaceDone
    /\ tables[req.self].rows # <<>>
    /\ CountryRows # <<>>
    /\ surface_years # <<>>

\* the mode that comes first among those whose arguments are supplied
FirstSuppliedMode ==
    IF /\ req.compare_years_difference
       /\ req.start_year # None /\ req.end_year # None /\ req.difference_threshold # None
    THEN "compare"
    ELSE IF req.threshold # None THEN "threshold"
    ELSE IF req.top_n # None THEN "top_n"
    ELSE "default"

\* C11: a call executes exactly one query mode, the first in the order compare,
\* threshold, top_n, default among those whose arguments are supplied, and its result
\* is that mode's result alone.
C11_OneModeByPrecedence ==
    /\ SurfaceDone => Len(ModesExecuted) <= 1
    /\ PastErrorChecks =>
          /\ ModesExecuted = << FirstSuppliedMode >>
          /\ result.value \in
                SurfaceModeResults(FirstSuppliedMode,
                                   [tables[req.self] EXCEPT !.rows = CountryRows],
                                   surface_years, req)

C11_Witness ==
    /\ PastErrorChecks
    /\ req.compare_years_difference
    /\ req.difference_threshold # None
    /\ req.threshold # None
    /\ req.top_n # None
    /\ result.value.status = "success"
    /\ \A i \in DOMAIN result.value.data : "Difference" \in DOMAIN result.value.data[i]

\* the years the table of the call has a column for
AvailableYears == {y \in {1999, 2000, 2001} : InSeq(YearLabel(y), tables[req.self].columns)}

\* the labels of a set of years, in ascending order
AscendingLabels(ys) ==
    LET kept == SelectSeq(<<1999, 2000, 2001>>, LAMBDA y : y \in ys)
    IN [i \in DOMAIN kept |-> YearLabel(kept[i])]

\* the years of the decision order: interval first, then the plain range, then the
\* single start year, then the decade, then every available year
YearsByDecisionOrder ==
    LET lo == CHOOSE y \in AvailableYears : \A z \in AvailableYears : y <= z
        hi == CHOOSE y \in AvailableYears : \A z \in AvailableYears : y >= z
        start == IF req.start_year # None /\ req.start_year.v > lo THEN req.start_year.v ELSE lo
        end == IF req.end_year # None /\ req.end_year.v < hi THEN req.end_year.v ELSE hi
    IN IF req.interval # None
       THEN {y \in AvailableYears : start <= y /\ y <= end /\ (y - start) % req.interval.v = 0}
       ELSE IF req.start_year # None /\ req.end_year # None
       THEN {y \in AvailableYears : req.start_year.v <= y /\ y <= req.end_year.v}
       ELSE IF req.start_year # None THEN {req.start_year.v} \cap AvailableYears
       ELSE IF req.decade_start # None
       THEN {y \in AvailableYears : req.decade_start.v <= y /\ y <= req.decade_start.v + 9}
       ELSE AvailableYears

\* C12: determine_years returns, in ascending order, the years of the decision order:
\* with interval every interval-th available year from the start to the end clipped to
\* the data's first and last year; else the available years of [start_year, end_year];
\* else the single start_year; else the decade's available years; else all years.
C12_YearsByDecisionOrder ==
    (SurfaceDone /\ InSeq("determine_years", stages)) =>
        surface_years = AscendingLabels(YearsByDecisionOrder)

\* the same, leaving aside the calls that give interval and end_year without start_year
YearsByDecisionOrderElsewhere ==
    (/\ SurfaceDone /\ InSeq("determine_years", stages)
     /\ ~ (req.interval # None /\ req.end_year # None /\ req.start_year = None)) =>
        surface_years = AscendingLabels(YearsByDecisionOrder)

\* the call returned the error object with this text
ReturnedError(text) ==
    /\ result.status = "returned"
    /\ result.value.status = "error"
    /\ result.value.data = << Msg(text, <<>>) >>

\* C13: the error checks run in order before any query mode: an empty table gives
\* "No data available for the specified parameters." for any request; otherwise a
\* country filter that keeps no row gives "No data available for the specified
\* country(s)."; otherwise an empty selection of years gives "No valid years specified
\* or years not found in the dataset."; and in each case no query mode is executed.
C13_ErrorChecksInOrder ==
    SurfaceDone =>
        /\ tables[req.self].rows = <<>> =>
              /\ ReturnedError("No data available for the specified parameters.")
              /\ ModesExecuted = <<>>
        /\ (tables[req.self].rows # <<>> /\ CountryRows = <<>>) =>
              /\ ReturnedError("No data available for the specified country(s).")
              /\ ModesExecuted = <<>>
        /\ (tables[req.self].rows # <<>> /\ CountryRows # <<>> /\ surface_years = <<>>) =>
              /\ ReturnedError("No valid years specified or years not found in the dataset.")
              /\ ModesExecuted = <<>>

C13_Witness ==
    /\ SurfaceDone
    /\ req.self = "surface.empty"
    /\ req.country = PyStr("India")
    /\ req.threshold # None
    /\ ReturnedError("No data available for the specified parameters.")

\* a country that matches no row is reported before the years are looked at
C13_WitnessCountry ==
    /\ SurfaceDone
    /\ req.country = PyStr("Atlantis")
    /\ req.start_year = PyInt(2005)
    /\ ReturnedError("No data available for the specified country(s).")

-----------------------------------------------------------------------------
(* Further properties of the staged pipelines                               *)

NinjaCall == tool = "get_ren_ninja"

\* C14: get_ren_ninja without a level, or with a level other than 'pv' and 'wind',
\* returns data None and the one message "Value error: Invalid level specified.",
\* whatever the other arguments, and filters, merges, aggregates and sorts nothing.
C14_InvalidLevel ==
    (NinjaCall /\ req.level \notin {PyStr("pv"), PyStr("wind")}) =>
        /\ pc = "done"
        /\ result = Returned([data |-> None,
                              messages |-> << Msg("Value error: Invalid level specified.", <<>>) >>])
        /\ \A i \in DOMAIN stages : stages[i] = "assemble"
        /\ filtered_data = EmptyFrame
        /\ presort = EmptyFrame
        /\ sorted_data = EmptyFrame

C14_Witness ==
    /\ NinjaCall
    /\ pc = "done"
    /\ req.level = None
    /\ req.data_merge = PyStr("hourly")
    /\ req.group_by = PyStr("year")
    /\ Truthy(req.countries)
    /\ result.value.data = None

-----------------------------------------------------------------------------
(* Further properties of the single-call facades                            *)

EnergyDone == pc = "done" /\ tool = "get_energy_emission_data"

\* the rows of the table that the request's filters keep and whose Value is a number
EnergyMatching ==
    LET keeps(arg, cell) == arg \in {None, All, PyList(<<>>)} \/ InSeq(cell, AsList(arg))
    IN SelectSeq(tables["energy.data"].rows,
                 LAMBDA row : /\ keeps(req.Country, row["Country"])
                              /\ keeps(req.Year, row["Year"])
                              /\ keeps(req.Series, row["Series"])
                              /\ row["Value"].k = "int")

\* the returned rows are averages: one row per (Country, Series) of the matching rows,
\* with an 'Average Value' and no Year
EnergyAveraged ==
    LET rows == result.value.json
    IN /\ \A i \in DOMAIN rows : DOMAIN rows[i] = {"Country", "Series", "Average Value"}
       /\ \A i, j \in DOMAIN rows :
             (rows[i]["Country"] = rows[j]["Country"] /\ rows[i]["Series"] = rows[j]["Series"])
                => i = j
       /\ {<<rows[i]["Country"], rows[i]["Series"]>> : i \in DOMAIN rows}
             = {<<EnergyMatching[i]["Country"], EnergyMatching[i]["Series"]>> :
                   i \in DOMAIN EnergyMatching}

\* the returned rows are the matching rows with the columns Country, Year, Series, Value
EnergyRaw ==
    LET rows == result.value.json
    IN /\ \A i \in DOMAIN rows : DOMAIN rows[i] = {"Country", "Year", "Series", "Value"}
       /\ Len(rows) = Len(EnergyMatching)
       /\ \A i \in DOMAIN rows :
             /\ \A c \in {"Country", "Year", "Series"} : rows[i][c] = EnergyMatching[i][c]
             /\ rows[i]["Value"] = EnergyMatching[i]["Value"].v

\* the call returned rows (some row matched the filters)
EnergyReturnedRows == EnergyDone /\ result.value.shape = "str"

\* C15 as stated: averaged rows exactly when Country is a name or a list (neither
\* "all" nor absent) and Year and Series are each absent or "all"; raw rows otherwise.
C15_AveragedWhenConcrete ==
    EnergyReturnedRows =>
        IF /\ req.Country \notin {None, All}
           /\ req.Year \in {None, All} /\ req.Series \in {None, All}
        THEN EnergyAveraged
        ELSE EnergyRaw

\* C15: get_energy_emission_data returns averaged rows exactly when Country is not
\* "all" (a name, a list, or None) and Year and Series are each None or "all"; in
\* every other case with matching rows it returns the raw rows.
C15_AveragedUnlessAll ==
    EnergyReturnedRows =>
        IF req.Country # All /\ req.Year \in {None, All} /\ req.Series \in {None, All}
        THEN EnergyAveraged
        ELSE EnergyRaw

C15_Witness ==
    /\ EnergyReturnedRows
    /\ req.Country = PyList(<<"India", "Kenya">>)
    /\ req.Year = All
    /\ req.Series = None
    /\ Len(result.value.json) = 2
    /\ EnergyAveraged

\* the emission columns of the greenhouse emissions data set
ValidEmissionTypes == ToSet(EmissionColumns) \ {"Country or Area", "Year"}

\* the message lists the emission types the caller may ask for instead
ListsAlternatives(msg) ==
    /\ Len(msg.values) = 2
    /\ ToSet(msg.values[2]) = ValidEmissionTypes

\* get_emission_data was asked for emission types, some of which the data set lacks
EmissionTypeMissing ==
    /\ pc = "done"
    /\ tool = "get_emission_data"
    /\ req.emission_type # All
    /\ Truthy(req.emission_type)
    /\ \E i \in DOMAIN AsList(req.emission_type) :
          AsList(req.emission_type)[i] \notin ToSet(EmissionColumns)

\* its message names every missing type and lists the alternatives
EmissionMissingReported ==
    /\ result.status = "returned"
    /\ "message" \in DOMAIN result.value
    /\ ListsAlternatives(result.value.message)
    /\ \A i \in DOMAIN AsList(req.emission_type) :
          AsList(req.emission_type)[i] \notin ToSet(EmissionColumns)
             => InSeq(AsList(req.emission_type)[i], result.value.message.values[1])

\* get_average_emission_data was asked for an emission type the data set lacks
AverageTypeMissing ==
    /\ pc = "done"
    /\ tool = "get_average_emission_data"
    /\ req.emission_type \notin ToSet(EmissionColumns)

\* the country of the request has rows in the table of the average tool
AverageCountryKnown ==
    \E i \in DOMAIN tables["average.data"].rows :
        tables["average.data"].rows[i]["Country or Area"] = req.country

\* C16 as stated: whenever a requested emission type does not exist, both facades
\* return a message that names the missing type(s) and lists the valid alternatives.
C16_MissingTypeListsAlternatives ==
    /\ EmissionTypeMissing => EmissionMissingReported
    /\ AverageTypeMissing =>
          /\ "error" \in DOMAIN result.value
          /\ result.value.error.values[1] = req.emission_type
          /\ ListsAlternatives(result.value.error)

\* C16: for a missing emission type get_emission_data returns a message that names
\* the missing type(s) and lists the valid alternatives; get_average_emission_data,
\* for a country that has rows, returns the error 'Emission type "X" does not exist.',
\* which names the type and lists no alternative.
C16_MissingTypeReported ==
    /\ EmissionTypeMissing => EmissionMissingReported
    /\ (AverageTypeMissing /\ AverageCountryKnown) =>
          /\ "error" \in DOMAIN result.value
          /\ result.value.error = Msg("Emission type does not exist.", << req.emission_type >>)
          /\ ~ ListsAlternatives(result.value.error)

C16_Witness ==
    /\ EmissionTypeMissing
    /\ EmissionMissingReported
    /\ req.emission_type = PyList(<<"n2o_emissions", "co2">>)

C16_WitnessAverage ==
    /\ AverageTypeMissing
    /\ AverageCountryKnown
    /\ result.value.error = Msg("Emission type does not exist.", << "co2" >>)

\* get_average_emission_data was called for a country and an emission column that exist
AverageAnswered ==
    /\ pc = "done"
    /\ tool = "get_average_emission_data"
    /\ AverageCountryKnown
    /\ req.emission_type \in ToSet(EmissionColumns)

\* the rows of the country in the table of the average tool
CountryYears ==
    SelectSeq(tables["average.data"].rows,
              LAMBDA row : row["Country or Area"] = req.country)

\* the result holds the min(num_years, available) rows of the country with the greatest
\* (latest) or smallest (~ latest) Year values, in that order of Year, each row with
\* the Year and the requested emission column only
TrendRows(latest) ==
    LET data == result.value.data
        after(a, b) == IF latest THEN a > b ELSE a < b
        returned == {data[i]["Year"] : i \in DOMAIN data}
    IN /\ "data" \in DOMAIN result.value
       /\ Len(data) = IF req.num_years < Len(CountryYears) THEN req.num_years
                      ELSE Len(CountryYears)
       /\ \A i \in DOMAIN data :
             /\ DOMAIN data[i] = {"Year", req.emission_type}
             /\ \E j \in DOMAIN CountryYears :
                   /\ CountryYears[j]["Year"] = data[i]["Year"]
                   /\ CountryYears[j][req.emission_type] = data[i][req.emission_type]
       /\ \A i \in 1..(Len(data) - 1) : after(data[i]["Year"], data[i + 1]["Year"])
       /\ \A j \in DOMAIN CountryYears :
             CountryYears[j]["Year"] \notin returned =>
                \A y \in returned : after(y, CountryYears[j]["Year"])

InvalidTrendReturned ==
    /\ "error" \in DOMAIN result.value
    /\ result.value.error = Msg("Invalid trend type. Please choose 'average', 'last x years', 'first x years', or 'trend for x years'.", <<>>)

TrendText == Lower(req.trend_type)

\* C19 as stated: 'last' (or otherwise 'trend for') gives the latest rows in
\* descending Year order, 'first' gives the earliest rows in ascending Year order, and
\* a trend_type matching none of 'average', 'last', 'first', 'trend for' gives the
\* 'Invalid trend type...' error.
C19_TrendSelection ==
    (AverageAnswered /\ TrendText # <<"average">>) =>
        /\ Contains(TrendText, <<"last">>) => TrendRows(TRUE)
        /\ Contains(TrendText, <<"first">>) => TrendRows(FALSE)
        /\ (/\ ~ Contains(TrendText, <<"last">>) /\ ~ Contains(TrendText, <<"first">>)
            /\ Contains(TrendText, <<"trend", "for">>)) => TrendRows(TRUE)
        /\ (/\ ~ Contains(TrendText, <<"last">>) /\ ~ Contains(TrendText, <<"first">>)
            /\ ~ Contains(TrendText, <<"trend", "for">>)) => InvalidTrendReturned

\* C19: for an existing country and emission column and a trend_type other than
\* 'average': one containing 'last' gives the min(num_years, available) latest rows in
\* descending Year order; otherwise one containing 'first' gives the earliest rows in
\* ascending Year order; otherwise one containing 'trend for' gives the latest rows;
\* otherwise the 'Invalid trend type...' error; each row holds only Year and the column.
C19_TrendSelectionInOrder ==
    (AverageAnswered /\ TrendText # <<"average">>) =>
        IF Contains(TrendText, <<"last">>) THEN TrendRows(TRUE)
        ELSE IF Contains(TrendText, <<"first">>) THEN TrendRows(FALSE)
        ELSE IF Contains(TrendText, <<"trend", "for">>) THEN TrendRows(TRUE)
        ELSE InvalidTrendReturned

C19_Witness ==
    /\ AverageAnswered
    /\ req.country = "Australia"
    /\ req.trend_type = <<"first", "x", "years">>
    /\ req.num_years = 2
    /\ TrendRows(FALSE)
    /\ result.value.data[1]["Year"] = 2019
    /\ result.value.data[2]["Year"] = 2020

\* the rows of the structured source table that pass every filter of the request, the
\* months and hours filters taken over the requested values inside 1..12 and 0..23
NinjaRowsInDomain ==
    LET source == NinjaStructData(tables[NinjaSource(req.level, req.flag)])
        asked(arg, cell) == Truthy(arg) => InSeq(cell, arg.v)
        legal(arg, cell, lo, hi) == Truthy(arg) => (cell \in lo..hi /\ InSeq(cell, arg.v))
    IN SelectSeq(source.rows,
                 LAMBDA row : /\ asked(req.countries, row["country"])
                              /\ asked(req.dates, SubSeq(row["time"], 1, 3))
                              /\ asked(req.years, row["time"][1])
                              /\ legal(req.months, row["time"][2], 1, 12)
                              /\ legal(req.hours, row["time"][4], 0, 23))

\* the messages that start with the given text
MessagesWith(text) == SelectSeq(messages, LAMBDA m : m.text = text)

\* the requested values outside lo..hi are listed, in request order, in one message
ListedOnce(arg, text, lo, hi) ==
    LET outside == SelectSeq(arg.v, LAMBDA v : v < lo \/ v > hi)
    IN IF outside = <<>> THEN MessagesWith(text) = <<>>
       ELSE /\ Len(MessagesWith(text)) = 1
            /\ MessagesWith(text)[1].values = outside

\* C17: in get_ren_ninja every requested month outside 1..12 and hour outside 0..23 is
\* listed, in request order, in a single "Incorrect months: " / "Incorrect hours: "
\* message; the call goes on; and the rows kept are exactly those whose month and hour
\* are among the requested values inside the domain.
C17_IncorrectMonthsHours ==
    /\ (NinjaCall /\ pc = "merge") =>
          /\ Truthy(req.months) => ListedOnce(req.months, "Incorrect months: ", 1, 12)
          /\ Truthy(req.hours) => ListedOnce(req.hours, "Incorrect hours: ", 0, 23)
          /\ filtered_data.rows = NinjaRowsInDomain
    /\ (NinjaCall /\ pc = "raised") =>
          (Truthy(req.data_merge) \/ Truthy(req.group_by) \/ Truthy(req.aggregate))

C17_Witness ==
    /\ NinjaCall
    /\ pc = "done"
    /\ req.months = PyList(<<13, 1, 0>>)
    /\ req.hours = PyList(<<23, 35>>)
    /\ req.countries = None
    /\ req.dates = None
    /\ req.years = None
    /\ MessagesWith("Incorrect months: ") = << Msg("Incorrect months: ", <<13, 0>>) >>
    /\ MessagesWith("Incorrect hours: ") = << Msg("Incorrect hours: ", <<35>>) >>
    /\ Len(result.value.data.v) = 2

-----------------------------------------------------------------------------
(* Properties of the orchestration layer *)

HandlerDone == pc = "done" /\ "function_name" \in DOMAIN req

\* the facade names of the external interface
InterfaceFacades ==
    {"get_emission_data", "get_surface_temperature_change", "get_carbon_emission_data",
     "get_sector_emission_data", "get_country_rating", "get_energy_emission_data",
     "get_average_fuel_emission_data", "get_us_state_weather_data", "get_weather_data",
     "get_ren_ninja", "get_cil_gobal_tas"}

\* the handler called no facade and returned the unknown-function error object
UnknownReturned == tool = "none" /\ result = Returned(UnknownFunction)

\* C18: fetch_response_userquery returns the unknown-function error object for every
\* function name that is no facade name, and for every facade name of the external
\* interface it returns the result of that facade's run_impl, called with the parameters
C18_RoutedToNamedFacade ==
    HandlerDone =>
        /\ req.function_name \notin FacadeNames => UnknownReturned
        /\ req.function_name \in InterfaceFacades =>
              tool = req.function_name /\ ~ UnknownReturned

-----------------------------------------------------------------------------
(* Properties of the percentile selection of get_cil_gobal_tas *)

\* the call has passed Step 4
CilSelected == tool = "get_cil_gobal_tas" /\ pc = "aggregate"

\* the call went on without aggregation and returned
CilReturnedRows ==
    /\ tool = "get_cil_gobal_tas" /\ pc = "done" /\ result.status = "returned"
    /\ ~ Truthy(req.group_by) /\ ~ Truthy(req.aggregate)

\* the requested values that name a percentile of the files, and the others
ValidRequested == SelectSeq(req.percentiles.v, LAMBDA p : p \in {"0.05", "0.50", "0.95"})
OtherRequested == SelectSeq(req.percentiles.v, LAMBDA p : p \notin {"0.05", "0.50", "0.95"})

\* the key columns followed by the percentile columns asked for
StatedColumns ==
    <<"country", "ssp_range", "year_range">> \o
        (IF req.percentiles = None THEN <<"p0.05", "p0.50", "p0.95">>
         ELSE [i \in DOMAIN ValidRequested |-> PLabel(ValidRequested[i])])

NoneValid == req.percentiles # None /\ ValidRequested = <<>>

\* the values that are no percentile are listed in one message, in request order
InvalidListedOnce ==
    LET listed == MessagesWith("Invalid percentile value(s): ")
    IN IF req.percentiles = None \/ OtherRequested = <<>> THEN listed = <<>>
       ELSE Len(listed) = 1 /\ listed[1].values = OtherRequested

\* C20: in get_cil_gobal_tas, with percentiles absent each row has the keys country,
\* ssp_range, year_range, p0.05, p0.50, p0.95; with percentiles given each row has the
\* three key columns followed by exactly the columns p<v> of the requested values v among
\* '0.05', '0.50', '0.95', in request order; every other requested value is listed in one
\* "Invalid percentile value(s): " message; and with no valid value data is empty
C20_PercentileColumns ==
    /\ CilSelected =>
          /\ InvalidListedOnce
          /\ IF NoneValid THEN ToRecords(filtered_data) = <<>>
             ELSE filtered_data.columns = StatedColumns
    /\ CilReturnedRows =>
          /\ InvalidListedOnce
          /\ result.value.messages = messages
          /\ IF NoneValid THEN result.value.data = PyList(<<>>)
             ELSE \A i \in DOMAIN result.value.data.v :
                      DOMAIN result.value.data.v[i] = ToSet(StatedColumns)

\* a call that asked for 0.95, 0.24 and 0.05 returned rows
C20_Witness ==
    /\ CilReturnedRows
    /\ req.percentiles = PyList(<<"0.95", "0.24", "0.05">>)
    /\ result.value.data.v # <<>>
    /\ filtered_data.columns = <<"country", "ssp_range", "year_range", "p0.95", "p0.05">>

\* a call that asked for no valid percentile returned empty data and the message
C20_WitnessNoneValid ==
    /\ CilReturnedRows
    /\ req.percentiles = PyList(<<"0.24">>)
    /\ result.value.data = PyList(<<>>)
    /\ Len(messages) = 1

-----------------------------------------------------------------------------
(* Properties of the filters of get_cil_gobal_tas *)

\* a filter argument that names at least one value
Supplied(arg) == arg # None /\ arg.v # <<>>

\* the row satisfies every supplied filter of the request
CilMatches(row) ==
    /\ Supplied(req.countries) => row["country"] \in ToSet(req.countries.v)
    /\ Supplied(req.years_range) => row["year_range"] \in ToSet(req.years_range.v)
    /\ Supplied(req.ssp_range) => row["ssp_range"] \in ToSet(req.ssp_range.v)

\* the rows of the dataset selected by flag that satisfy the filters, on the returned columns
CilMatchingRows ==
    Project([columns |-> CilColumns,
             rows |-> SelectSeq(tables[CilSource(req.flag)].rows, CilMatches)],
            StatedColumns).rows

\* a call without aggregation and truncation returned rows with their columns
CilReturnedFiltered == CilReturnedRows /\ req.n = 0 /\ ~ NoneValid

-----------------------------------------------------------------------------
(* Properties of get_carbon_emission_data *)

CarbonDone ==
    tool = "get_carbon_emission_data" /\ pc = "done" /\ result.status = "returned"

\* the rows of the table that pass the country, sector and time filters of the request
CarbonFiltered ==
    SelectSeq(tables["carbon.data"].rows,
              LAMBDA row :
                /\ Supplied(req.countries) => row["country"] \in ToSet(req.countries.v)
                /\ Supplied(req.sectors) => row["sector"] \in ToSet(req.sectors.v)
                /\ IF Supplied(req.dates) THEN row["date"] \in ToSet(req.dates.v)
                   ELSE Supplied(req.years) => row["date"][3] \in ToSet(req.years.v))

\* the emissions of the filtered rows of one (country, sector) pair
PairEmissions(c, s) ==
    Column([columns |-> <<>>,
            rows |-> SelectSeq(CarbonFiltered,
                               LAMBDA row : row["country"] = c /\ row["sector"] = s)],
           "MtCO2 per day")

\* the reduction the time arguments choose
StatedEmissions(c, s) ==
    IF Supplied(req.dates) \/ Supplied(req.years) THEN SeqSum(PairEmissions(c, s))
    ELSE SeqSum(PairEmissions(c, s)) \div Len(PairEmissions(c, s))

\* C22: get_carbon_emission_data returns one row per distinct (country, sector) pair of
\* the filtered rows; Emissions is the sum over the rows whose date is in dates when dates
\* is given (years is then ignored), else the sum over the rows of the given years, else
\* the mean over all rows of the pair
C22_OneRowPerPairReduced ==
    CarbonDone =>
        LET data == result.value.data
            pairs == {<<CarbonFiltered[i]["country"], CarbonFiltered[i]["sector"]>> :
                         i \in DOMAIN CarbonFiltered}
        IN /\ Len(data) = Cardinality(pairs)
           /\ \A p \in pairs :
                 \E i \in DOMAIN data :
                    /\ data[i]["Country"] = p[1] /\ data[i]["Sector"] = p[2]
                    /\ data[i]["Emissions"] = StatedEmissions(p[1], p[2])

\* dates and years both given, naming different rows: the row of the dates is summed
C22_Witness ==
    /\ CarbonDone
    /\ req.dates = PyList(<< <<1, 1, 2023>> >>) /\ req.years = PyList(<<2024, 1999>>)
    /\ req.countries = PyList(<<"India">>) /\ req.sectors = None
    /\ Len(result.value.data) = 1
    /\ result.value.data[1]["Sector"] = "Residential"

\* two dates of one pair are summed: 24 + 36
C22_WitnessSum ==
    /\ CarbonDone
    /\ req.dates = PyList(<< <<2, 1, 2023>>, <<1, 1, 2024>> >>)
    /\ \E i \in DOMAIN result.value.data : result.value.data[i]["Emissions"] = 60

\* without time arguments the rows of one pair are averaged: (24 + 36) / 2
C22_WitnessMean ==
    /\ CarbonDone
    /\ req.dates = None /\ req.years = None
    /\ \E i \in DOMAIN result.value.data :
          result.value.data[i]["Sector"] = "Power" /\ result.value.data[i]["Emissions"] = 30

-----------------------------------------------------------------------------
(* Properties of the facades that answer {"status", "data"} *)

StatusDataFacades ==
    {"get_surface_temperature_change", "get_deforestation_data", "get_energy_mix_data",
     "get_global_carbon_emissions", "get_emission_monitoring_data", "get_surface_water_data"}

StatusDataDone == tool \in StatusDataFacades /\ pc = "done"

\* data is a non-empty list of rows
HoldsRows(data) == data # <<>> /\ \A i \in DOMAIN data : "text" \notin DOMAIN data[i]

\* data is a list holding one reason text
HoldsReason(data) == Len(data) = 1 /\ "text" \in DOMAIN data[1] /\ data[1].text # ""

\* C23: for every facade that answers {"status", "data"} and every request, a result with
\* status "success" has a non-empty data list of rows, and a call that is left with no
\* row has status "error" with data a list holding a reason text
C23_SuccessHasRows ==
    StatusDataDone =>
        /\ result.status = "returned"
        /\ \/ result.value.status = "success" /\ HoldsRows(result.value.data)
           \/ result.value.status = "error" /\ HoldsReason(result.value.data)

\* get_surface_water_data: the region matched, and the final dropna left no row
C23_Witness ==
    /\ StatusDataDone /\ tool = "get_surface_water_data"
    /\ req.region = PyStr("Lake Chad") /\ req.analysis_type = "seasonality"
    /\ req.start_year = None
    /\ result.value.status = "error"
    /\ result.value.data[1].text = "No data available for the specified region or criteria."

\* a success with rows from another facade
C23_WitnessSuccess ==
    /\ StatusDataDone /\ tool = "get_global_carbon_emissions"
    /\ result.value.status = "success" /\ Len(result.value.data) = 2

-----------------------------------------------------------------------------
(* Properties of the "isn't available" messages *)

\* the rows whose cell under col is among the values of a supplied argument
Surviving(rows, col, arg) ==
    IF Supplied(arg) THEN SelectSeq(rows, LAMBDA row : row[col] \in ToSet(arg.v)) ELSE rows

\* the message of a field: the requested values that no row has, if there is one
FieldMessage(rows, col, arg, text) ==
    LET absent == IF Supplied(arg)
                  THEN SelectSeq(arg.v, LAMBDA v : \A i \in DOMAIN rows : rows[i][col] # v)
                  ELSE <<>>
    IN IF absent = <<>> THEN <<>> ELSE << Msg(text, absent) >>

IsAvailabilityMessage(m) ==
    m.text \in {"Data for the following countries isn't available: ",
                "Data for the following year ranges isn't available: ",
                "Data for the following SSP ranges isn't available: ",
                "Data for the following sectors in these countries isn't available: "}

\* the messages of get_cil_gobal_tas, each field looked up in the rows the fields before left
CilStatedMessages ==
    LET source == tables[CilSource(req.flag)].rows
        of_countries == Surviving(source, "country", req.countries)
        of_years == Surviving(of_countries, "year_range", req.years_range)
    IN FieldMessage(source, "country", req.countries,
                    "Data for the following countries isn't available: ")
       \o FieldMessage(of_countries, "year_range", req.years_range,
                       "Data for the following year ranges isn't available: ")
       \o FieldMessage(of_years, "ssp_range", req.ssp_range,
                       "Data for the following SSP ranges isn't available: ")

\* the messages of get_carbon_emission_data
CarbonStatedMessages ==
    LET source == tables["carbon.data"].rows
    IN FieldMessage(source, "country", req.countries,
                    "Data for the following countries isn't available: ")
       \o FieldMessage(Surviving(source, "country", req.countries), "sector", req.sectors,
                       "Data for the following sectors in these countries isn't available: ")

CilFiltered ==
    tool = "get_cil_gobal_tas" /\ pc \in {"aggregate", "sort", "truncate", "assemble", "done"}

\* C24: get_carbon_emission_data and get_cil_gobal_tas apply their filters in the order
\* countries, sectors / years_range, ssp_range; the missing values of a field are those
\* absent from the rows that survived the earlier filters; and the messages appear in the
\* same field order
C24_MissingAgainstSurvivors ==
    /\ CilFiltered => SelectSeq(messages, IsAvailabilityMessage) = CilStatedMessages
    /\ (CilFiltered /\ pc = "done" /\ result.status = "returned") =>
          SelectSeq(result.value.messages, IsAvailabilityMessage) = CilStatedMessages
    /\ CarbonDone => result.value.messages = CarbonStatedMessages

\* get_carbon_emission_data: 'Power' is a sector of the table but not of Brazil
C24_Witness ==
    /\ CarbonDone
    /\ req.countries = PyList(<<"Brazil", "Atlantis">>) /\ req.sectors = PyList(<<"Power">>)
    /\ Len(result.value.messages) = 2
    /\ result.value.messages[2] =
          Msg("Data for the following sectors in these countries isn't available: ", <<"Power">>)

\* get_cil_gobal_tas: '2020-2039' is a year range of the table but not of Kenya
C24_WitnessCil ==
    /\ CilFiltered /\ pc = "done" /\ result.status = "returned"
    /\ req.countries = PyList(<<"Kenya", "Atlantis">>)
    /\ req.years_range = PyList(<<"2020-2039">>) /\ req.flag = None
    /\ Len(result.value.messages) >= 2
    /\ result.value.messages[2] =
          Msg("Data for the following year ranges isn't available: ", <<"2020-2039">>)

-----------------------------------------------------------------------------
(* Properties of get_sector_emission_data *)

SectorDone ==
    tool = "get_sector_emission_data" /\ pc = "done" /\ result.status = "returned"

\* the rows of the table that the filters of the request keep
SectorMatching ==
    LET keeps(arg, cell) == arg \in {None, All, PyStr("")} \/ InSeq(cell, AsList(arg))
    IN SelectSeq(tables["sector.emissions_data"].rows,
                 LAMBDA row : /\ keeps(req.Country, row["Country"])
                              /\ keeps(req.Sector, row["Sector"])
                              /\ keeps(req.Year, row["Year"])
                              /\ keeps(req.Description, row["Description"]))

\* the returned rows are averages: one row per combination of the keys among the matching
\* rows, holding the keys and the mean 'Average Emission Value' of the combination
SectorAveragedBy(keys) ==
    LET rows == result.value.json
        same(a, b) == \A k \in keys : a[k] = b[k]
        values(a) == Column([columns |-> <<>>,
                             rows |-> SelectSeq(SectorMatching, LAMBDA m : same(m, a))],
                            "Emission Value")
    IN /\ \A i \in DOMAIN rows : DOMAIN rows[i] = keys \cup {"Average Emission Value"}
       /\ \A i, j \in DOMAIN rows : same(rows[i], rows[j]) => i = j
       /\ \A i \in DOMAIN SectorMatching : \E j \in DOMAIN rows : same(rows[j], SectorMatching[i])
       /\ \A i \in DOMAIN rows :
             /\ values(rows[i]) # <<>>
             /\ rows[i]["Average Emission Value"]
                   = SeqSum(values(rows[i])) \div Len(values(rows[i]))

\* the returned rows are the matching rows as they are in the table
SectorRaw == result.value.json = SectorMatching

AbsentOrAll(arg) == arg \in {None, All}

\* C25 as stated: get_sector_emission_data returns one averaged row per (Country, Sector)
\* exactly when Year, Sector and Description are all absent or "all" and Country is not
\* "all"; when any of them is a concrete value it returns the raw filtered rows
C25_AveragedWhenAllAbsent ==
    SectorDone =>
        IF /\ req.Country # All
           /\ AbsentOrAll(req.Year) /\ AbsentOrAll(req.Sector) /\ AbsentOrAll(req.Description)
        THEN SectorAveragedBy({"Country", "Sector"})
        ELSE SectorRaw

\* C25: get_sector_emission_data averages when Country is not "all" and Year and Sector
\* are absent or "all": per (Country, Sector) when Description is absent or "all", per
\* (Country, Sector, Description) when Description names a value; it returns the raw
\* filtered rows when Year or Sector is concrete, Country is "all" or Description is empty
C25_AveragedPerDescription ==
    SectorDone =>
        IF req.Country # All /\ AbsentOrAll(req.Year) /\ AbsentOrAll(req.Sector)
        THEN IF AbsentOrAll(req.Description) THEN SectorAveragedBy({"Country", "Sector"})
             ELSE IF Truthy(req.Description)
             THEN SectorAveragedBy({"Country", "Sector", "Description"})
             ELSE SectorRaw
        ELSE SectorRaw

\* a concrete Description with Year and Sector absent: the averages of two rows
C25_Witness ==
    /\ SectorDone
    /\ req.Country = PyStr("India") /\ req.Description = PyList(<<"coal">>)
    /\ req.Year = None /\ req.Sector = None
    /\ Len(result.value.json) = 1
    /\ result.value.json[1]["Average Emission Value"] = 30
-----------------------------------------------------------------------------
(* Properties of the /ask endpoint                                          *)

\* a call of ask_question has ended
AskEnded == ask.pc = "ended"

\* the reply is a JSON body holding a 'response' string
HasResponseString(reply) ==
    /\ reply.status = 200
    /\ reply.body.k = "dict"
    /\ reply.body.response.k = "str"

\* the steps of a call that reached the facade
ToolBranchSteps == <<"clarify", "select", "invoke", "summarize">>

\* C26: every /ask request ends with a JSON body holding a 'response' string, whatever
\* the LLM replied (clarification failed, no tool call extracted, tool call extracted
\* with or without a name and arguments); a request that invoked a tool went through
\* clarify, select, invoke (once), summarize, in this order.
C26_EveryRequestAnswered ==
    AskEnded =>
        /\ HasResponseString(ask.reply)
        /\ InSeq("invoke", ask.steps) => ask.steps = ToolBranchSteps

\* the calls that ended with a 'response' string
C26_AnsweredBranches ==
    AskEnded /\ ask.reply # NullResponse /\ ask.reply.status = 200 =>
        /\ HasResponseString(ask.reply)
        /\ InSeq("invoke", ask.steps) => ask.steps = ToolBranchSteps

\* the memory of the one session the handler uses
SessionMemory == GetMemory(memory_store, SessionId)

\* the (question, final answer) pairs of the requests answered so far, in completion order
AnsweredExchanges ==
    [i \in 1..Len(answered) |-> [user |-> answered[i].question, model |-> answered[i].answer]]

\* a step leaves the memory alone or appends one entry to it
AppendsAtMost ==
    \/ memory_store' = memory_store
    \/ /\ DOMAIN memory_store' = {SessionId}
       /\ Len(memory_store'[SessionId]) = Len(SessionMemory) + 1
       /\ SubSeq(memory_store'[SessionId], 1, Len(SessionMemory)) = SessionMemory

\* a step that ends a request on the clarification-failure branch
EndsUnclarified == ask'.pc = "ended" /\ ask' # ask /\ ask'.steps = <<"clarify">>

\* C27: the memory of the session is the list, in completion order, of the (question,
\* final answer) pairs of exactly the requests that returned a generated answer; a step
\* never changes or removes an earlier entry, and a request that ends on the
\* clarification-failure branch adds none.
C27_MemoryIsAnsweredLog ==
    /\ [](SessionMemory = AnsweredExchanges)
    /\ [][AppendsAtMost /\ (EndsUnclarified => memory_store' = memory_store)]_vars

\* two requests were answered, one by a summary and one directly, and a third ended on
\* the clarification-failure branch
C27_Witness ==
    /\ AskEnded /\ ask.steps = <<"clarify">>
    /\ Len(SessionMemory) = 2
    /\ SessionMemory[1].model \in SummaryReplies
    /\ SessionMemory[2].model \in DirectReplies
    /\ SessionMemory[1].user # SessionMemory[2].user

\* the decision prompt of the call in flight has been built
PromptBuilt == ask.pc \in {"selected", "invoked"}

\* the exchanges of one client so far, as the memory would hold them
ExchangesOf(client) ==
    LET own == SelectSeq(answered, LAMBDA e : e.client = client)
    IN [i \in 1..Len(own) |-> [user |-> own[i].question, model |-> own[i].answer]]

\* C28: the memory context in the decision prompt of a request holds the exchanges of
\* the client that sent the request and no others, so that the questions of another
\* client leave the prompts built for this client as they are.
C28_OwnSessionInPrompt ==
    PromptBuilt => ask.memory_context = MemoryContext(ExchangesOf(ask.client))

\* the same for a client asking after none but itself was answered
C28_SingleClient ==
    PromptBuilt /\ (\A i \in DOMAIN answered : answered[i].client = ask.client) =>
        ask.memory_context = MemoryContext(ExchangesOf(ask.client))

-----------------------------------------------------------------------------
(* Properties of determine_years                                            *)

\* int(label) of a year column
YearOfLabel(label) == CHOOSE y \in {1999, 2000, 2001} : YearLabel(y) = label

\* the years determine_years returned to the call, as numbers
ReturnedYears == [i \in DOMAIN surface_years |-> YearOfLabel(surface_years[i])]

\* the returned years lie within the bounds the call supplied, are year columns of the
\* table, and ascend strictly
YearsWithinBounds ==
    /\ req.end_year # None =>
          \A i \in DOMAIN ReturnedYears : ReturnedYears[i] <= req.end_year.v
    /\ req.start_year # None =>
          \A i \in DOMAIN ReturnedYears : ReturnedYears[i] >= req.start_year.v
    /\ \A i \in DOMAIN surface_years : InSeq(surface_years[i], tables[req.self].columns)
    /\ \A i, j \in DOMAIN ReturnedYears : i < j => ReturnedYears[i] < ReturnedYears[j]

\* C29: for every combination of start_year, end_year, decade_start and interval, no
\* year determine_years returns is above a supplied end_year or below a supplied
\* start_year; every returned year is a year column of the table and the list ascends
\* strictly.
C29_YearsWithinBounds ==
    (SurfaceDone /\ InSeq("determine_years", stages)) => YearsWithinBounds

\* the same, leaving aside the calls that give end_year without start_year
C29_WithinBoundsWithStart ==
    (/\ SurfaceDone /\ InSeq("determine_years", stages)
     /\ ~ (req.end_year # None /\ req.start_year = None)) => YearsWithinBounds

-----------------------------------------------------------------------------
(* Properties of the sort direction                                         *)

\* the returned table is ordered ascending when sort is 'ascending' and descending
\* for every other value
OrderedAsStated == IsOrdered(sorted_data.rows, SortKeyColumns, req.sort = "ascending")

\* C30: get_cil_gobal_tas and get_ren_ninja read the sort direction alike: the rows are
\* ordered ascending only when sort is exactly 'ascending'; with sort absent (the
\* default 'descending'), 'descending' or any other string they are ordered descending.
C30_AscendingOnlyWhenAsked == ReturnedSorted => OrderedAsStated

\* the same, leaving aside the calls of get_cil_gobal_tas whose sort is neither
\* 'ascending' nor 'descending'
C30_NamedDirections ==
    (/\ ReturnedSorted
     /\ (tool = "get_cil_gobal_tas" => req.sort \in {"ascending", "descending"})) =>
        OrderedAsStated

====
